---- MODULE Spec2Model ----
(***************************************************************************)
(* A state-machine model of github.com/maurice2k/ultrapool (ultrapool.go): *)
(* the WorkerPool with its shards, the three single-slot idle caches, the  *)
(* idle lists, the worker goroutines, the cleanup goroutine and            *)
(* Start / Stop / AddTask.                                                 *)
(*                                                                         *)
(* Every goroutine is a process with a program counter; one action is one  *)
(* access to shared memory (an atomic load, a compare-and-swap, a channel  *)
(* operation) or one critical section of a spin lock.                      *)
(*                                                                         *)
(* Time is kept as ages: lastUsed[w] is how long ago worker w was stamped, *)
(* cleanup[r].now how long ago cleanup goroutine r captured time.Now() (or *)
(* went to sleep).  Tick lets one unit of time pass.                       *)
(***************************************************************************)
EXTENDS Integers, Sequences, FiniteSets, TLC

\* ------------------------------------------------------------------ bounds
MaxWorkers == 5      \* workerInstance objects the allocator may create
MaxIdle == 5         \* idle workers of a pool that is already in use (Init)
MaxBusy == 1         \* running handlers of a pool that is already in use (Init)
MaxTasks == 2        \* AddTask calls made in one behaviour
MaxNils == 1         \* of which calls with a nil Task
NumProducers == 2    \* goroutines that call AddTask
MaxStarts == 2       \* Start calls (each one spawns a cleanup goroutine)
NumStoppers == 2     \* Stop calls
MaxProcs == 2        \* largest runtime.GOMAXPROCS(0) / SetNumShards input used
SeqTasks == 3        \* AddTask calls made one after the other on a new pool
MaxShardArg == 130   \* largest SetNumShards argument but the one of the example
MaxAge == 2          \* ages saturate here

\* ------------------------------------------------------- program constants
maxShards == 128
bisectThreshold == 400
\* time.Second, in ticks: the unit of time is one second
defaultIdleWorkerLifetime == 1
\* the largest and the smallest value of Go's int (acquireCounter), which is
\* 32 bits wide on the 32-bit platforms and 64 bits wide on the others: the
\* 32-bit one is modelled, the arithmetic at 64 bits being the same
MaxInt == 2147483647
MinInt == (0 - MaxInt) - 1

Workers == 1 .. MaxWorkers
Tasks == 1 .. MaxTasks
Producers == 1 .. NumProducers
Reapers == 1 .. MaxStarts
Stoppers == 1 .. NumStoppers

\* a nil *workerInstance, and the nil Task (the shutdown sentinel)
NoWorker == 0
NilTask == 0

VARIABLES
    wp,           \* the WorkerPool's fields
    shards,       \* wp.shards: a sequence of poolShard records
    workers,      \* the workerInstance objects: Workers -> record
    allocated,    \* the workerInstance objects that exist
    workerCache,  \* wp.workerCache (sync.Pool): the objects Put and not yet Get
    run,          \* worker.run() goroutines: Workers -> [pc, task]
    prod,         \* AddTask callers: Producers -> [pc, task, ctr, shard, worker]
    cleanup,      \* wp.cleanup() goroutines: Reapers -> [pc, now, i, j, toBeCleaned]
    stopc,        \* Stop callers: Stoppers -> [pc, i, accepted]
    calls,        \* the AddTask calls made so far: a sequence of records
    budget        \* the calls the environment may still make

vars == <<wp, shards, workers, allocated, workerCache, run, prod, cleanup, stopc,
          calls, budget>>

\* ------------------------------------------------------------------ helpers
Min(a, b) == IF a < b THEN a ELSE b
Max(a, b) == IF a > b THEN a ELSE b

\* the elements of a sequence
Range(s) == {s[k] : k \in 1 .. Len(s)}

\* s[0:j] and s[j:] of a Go slice (0-based, j elements cut)
Prefix(s, j) == SubSeq(s, 1, j)
Suffix(s, j) == SubSeq(s, j + 1, Len(s))

\* An unrecovered panic in a goroutine the pool started ends the process.
Crashed == \E r \in Reapers : cleanup[r].pc = "panic"
Alive == ~Crashed

\* ------------------------------------------------------------ construction
\* wp.idleWorkerLifetime: no SetIdleWorkerLifetime call is modelled
idleWorkerLifetime == defaultIdleWorkerLifetime

\* a clamp that lacks the test against maxShards
ClampShardsUncapped(n) == IF n <= 1 THEN 1 ELSE n

\* SetNumShards's clamp of its argument
ClampShards(n) == IF n <= 1 THEN 1 ELSE IF n > maxShards THEN maxShards ELSE n

\* &poolShard{wp: wp, idleWorkerList: make(..., 0, 1000)}
NewShard ==
    [idleWorkerList |-> <<>>, idleWorker1 |-> NoWorker, idleWorker2 |-> NoWorker,
     mutex |-> 0, stopped |-> FALSE]

\* workerCache.New: &workerInstance{taskChan: make(chan Task, 0)}; the zero
\* time.Time of lastUsed is older than any age that matters
NewWorker ==
    [taskChan |-> "open", shard |-> 0, lastUsed |-> MaxAge, isDeleted |-> FALSE]

NoRun == [pc |-> "none", task |-> NilTask]
IdleProducer == [pc |-> "idle", call |-> 0, ctr |-> 0, shard |-> 0, worker |-> NoWorker]
NoCleanup == [pc |-> "none", now |-> 0, i |-> 0, j |-> 0, toBeCleaned |-> <<>>]
IdleStopper == [pc |-> "idle", i |-> 0, accepted |-> {}]

\* a NewWorkerPool whose acquireCounter starts at 0
NewWorkerPoolCountingFromZero ==
    [started |-> FALSE, stopped |-> FALSE, numShards |-> ClampShards(MaxProcs),
     acquireCounter |-> 0, spawnedWorkers |-> 0, mutex |-> 0,
     idleWorker1 |-> NoWorker]

\* NewWorkerPool(handlerFunc), which ends with SetNumShards(runtime.GOMAXPROCS(0))
NewWorkerPool ==
    [started |-> FALSE, stopped |-> FALSE, numShards |-> ClampShards(MaxProcs),
     acquireCounter |-> -1, spawnedWorkers |-> 0, mutex |-> 0,
     idleWorker1 |-> NoWorker]

\* ------------------------------------------------------------ SetNumShards
\* SetNumShards(n), called before Start as its documentation requires
SetNumShards(n) ==
    /\ Alive
    /\ ~wp.started
    /\ wp.mutex = 0
    /\ budget.setShards > 0
    /\ wp' = [wp EXCEPT !.numShards = ClampShards(n)]
    /\ budget' = [budget EXCEPT !.setShards = @ - 1]
    /\ UNCHANGED <<shards, workers, allocated, workerCache, run, prod, cleanup,
                   stopc, calls>>

\* ------------------------------------------------------------------- Start
\* the guard of Start's critical section: shards are made on the first call
StartMakesShards == ~wp.started

\* the next cleanup goroutine to start
NextReaper == MaxStarts - budget.starts + 1

\* Start(): Lock, make the shards once, Unlock, then `go wp.cleanup()` on
\* every call.  The critical section waits for the pool's spin lock.
Start ==
    /\ Alive
    /\ budget.starts > 0
    /\ wp.mutex = 0
    /\ IF StartMakesShards
       THEN /\ shards' = shards \o [i \in 1 .. wp.numShards |-> NewShard]
            /\ wp' = [wp EXCEPT !.started = TRUE]
       ELSE UNCHANGED <<shards, wp>>
    /\ cleanup' = [cleanup EXCEPT ![NextReaper] = [NoCleanup EXCEPT !.pc = "sleep"]]
    /\ budget' = [budget EXCEPT !.starts = @ - 1]
    /\ UNCHANGED <<workers, allocated, workerCache, run, prod, stopc, calls>>

\* -------------------------------------------------------------------- Stop
\* the guards of Stop: return at once on a pool never started, walk the
\* shards only on the first Stop
\* a Stop that lacks the test of wp.started
StopNeverReturnsEarly == FALSE
\* a Stop that lacks the test of wp.stopped
StopAlwaysWalksShards == TRUE

StopReturnsEarly == ~wp.started
StopWalksShards == ~wp.stopped

\* the workers of an idle list whose channel Stop closes
StopCloses(list) == {w \in Range(list) : ~workers[w].isDeleted}

\* the AddTask calls that have returned nil (success)
Accepted == {c \in 1 .. Len(calls) : calls[c].result = "ok"}

\* Stop(): wp.mutex.Lock() and the two tests that follow it.  The caller's
\* record keeps the calls that had succeeded when Stop was called.
Stop_lock(k) ==
    /\ Alive
    /\ stopc[k].pc = "idle"
    /\ \A q \in Stoppers : q < k => stopc[q].pc # "idle"
    /\ budget.stops > 0
    /\ budget' = [budget EXCEPT !.stops = @ - 1]
    /\ wp.mutex = 0
    /\ IF StopReturnsEarly
       THEN /\ stopc' = [stopc EXCEPT ![k].pc = "noop", ![k].accepted = Accepted]
            /\ UNCHANGED wp
       ELSE IF StopWalksShards
       THEN /\ stopc' = [stopc EXCEPT ![k].pc = "shardLock", ![k].i = 1,
                                      ![k].accepted = Accepted]
            /\ wp' = [wp EXCEPT !.mutex = 1]
       ELSE /\ stopc' = [stopc EXCEPT ![k].pc = "done", ![k].accepted = Accepted]
            /\ wp' = [wp EXCEPT !.stopped = TRUE]
    /\ UNCHANGED <<shards, workers, allocated, workerCache, run, prod, cleanup,
                   calls>>

\* shard.mutex.Lock() in Stop's loop
Stop_shardLock(k) ==
    /\ Alive
    /\ stopc[k].pc = "shardLock"
    /\ shards[stopc[k].i].mutex = 0
    /\ shards' = [shards EXCEPT ![stopc[k].i].mutex = 1]
    /\ stopc' = [stopc EXCEPT ![k].pc = "shard"]
    /\ UNCHANGED <<wp, workers, allocated, workerCache, run, prod, cleanup,
                   calls, budget>>

\* the body of Stop's loop: set stopped, close the listed workers' channels,
\* unlock.  close() of a closed channel panics.
Stop_shard(k) ==
    LET i == stopc[k].i
        cl == StopCloses(shards[i].idleWorkerList)
    IN  /\ Alive
        /\ stopc[k].pc = "shard"
        /\ IF \E w \in cl : workers[w].taskChan = "closed"
           THEN /\ stopc' = [stopc EXCEPT ![k].pc = "panic"]
                /\ shards' = [shards EXCEPT ![i].stopped = TRUE]
                /\ UNCHANGED workers
           ELSE /\ workers' = [w \in Workers |->
                      IF w \in cl
                      THEN [workers[w] EXCEPT !.isDeleted = TRUE, !.taskChan = "closed"]
                      ELSE workers[w]]
                /\ shards' = [shards EXCEPT ![i].stopped = TRUE, ![i].mutex = 0]
                /\ stopc' = [stopc EXCEPT ![k].pc =
                                          IF i < wp.numShards THEN "shardLock" ELSE "finish",
                                      ![k].i = IF i < wp.numShards THEN i + 1 ELSE i]
        /\ UNCHANGED <<wp, allocated, workerCache, run, prod, cleanup, calls, budget>>

\* a Stop that waits, before it returns, until no handler is running
Stop_finish_waiting(k) ==
    /\ Alive
    /\ stopc[k].pc = "finish"
    /\ \A w \in Workers : run[w].pc # "handler"
    /\ wp' = [wp EXCEPT !.stopped = TRUE, !.mutex = 0]
    /\ stopc' = [stopc EXCEPT ![k].pc = "done"]
    /\ UNCHANGED <<shards, workers, allocated, workerCache, run, prod, cleanup,
                   calls, budget>>

\* wp.stopped = true; wp.mutex.Unlock()
Stop_finish(k) ==
    /\ Alive
    /\ stopc[k].pc = "finish"
    /\ wp' = [wp EXCEPT !.stopped = TRUE, !.mutex = 0]
    /\ stopc' = [stopc EXCEPT ![k].pc = "done"]
    /\ UNCHANGED <<shards, workers, allocated, workerCache, run, prod, cleanup,
                   calls, budget>>

\* a Stop call on a started pool has returned
StopReturned == \E k \in Stoppers : stopc[k].pc = "done"

\* ----------------------------------------------------------------- AddTask
\* AddTask's first test: a pool that was not started takes no task
\* an AddTask that lacks the test of wp.started
AddTaskNeverRejects == FALSE

AddTaskRejects == ~wp.started

\* the record of an AddTask call: its argument, how it ended ("pending" while
\* it runs), whether a Stop had returned when it began, how often the handler
\* was invoked with it and whether that invocation returned
NewCall(task, result) ==
    [task |-> task, result |-> result, afterStop |-> StopReturned,
     invoked |-> 0, handled |-> FALSE]

\* AddTask(task): the test of wp.started and, on a started pool, the load of
\* wp.acquireCounter that begins `wp.acquireCounter++`.  isNil: the caller
\* passes a nil Task.
AddTask_call(p, isNil) ==
    LET c == Len(calls) + 1
        task == IF isNil THEN NilTask ELSE c
    IN  /\ Alive
        /\ prod[p].pc = "idle"
        /\ \A q \in Producers : q < p => prod[q].pc # "idle"
        /\ budget.tasks > 0
        /\ isNil => budget.nils > 0
        /\ budget' = [budget EXCEPT !.tasks = @ - 1,
                                    !.nils = IF isNil THEN @ - 1 ELSE @]
        /\ IF AddTaskRejects
           THEN /\ calls' = Append(calls, NewCall(task, "not started"))
                /\ UNCHANGED prod
           ELSE /\ calls' = Append(calls, NewCall(task, "pending"))
                /\ prod' = [prod EXCEPT ![p] =
                      [IdleProducer EXCEPT !.pc = "store", !.call = c,
                                           !.ctr = wp.acquireCounter]]
        /\ UNCHANGED <<wp, shards, workers, allocated, workerCache, run, cleanup,
                       stopc>>

\* x + 1 on an int: signed integers wrap around in Go
IntInc(x) == IF x = MaxInt THEN MinInt ELSE x + 1

\* the store that ends `wp.acquireCounter++` (the increment is not atomic)
AddTask_store(p) ==
    /\ Alive
    /\ prod[p].pc = "store"
    /\ wp' = [wp EXCEPT !.acquireCounter = IntInc(prod[p].ctr)]
    /\ prod' = [prod EXCEPT ![p].pc = "idx"]
    /\ UNCHANGED <<shards, workers, allocated, workerCache, run, cleanup, stopc,
                   calls, budget>>

\* idx := wp.acquireCounter % wp.numShards, as Go computes % (the sign of the
\* dividend)
ShardIndex(counter, n) ==
    IF counter >= 0 THEN counter % n
    ELSE 0 - ((((0 - (counter + 1)) % n) + 1) % n)

\* idx := ...; shard := wp.shards[idx], which panics when idx is no index of
\* wp.shards.  Shards are numbered from 1 here.
AddTask_idx(p) ==
    LET idx == ShardIndex(wp.acquireCounter, wp.numShards)
    IN  /\ Alive
        /\ prod[p].pc = "idx"
        /\ IF idx >= 0 /\ idx < Len(shards)
           THEN /\ prod' = [prod EXCEPT ![p].pc = "load1", ![p].shard = idx + 1]
                /\ UNCHANGED calls
           ELSE /\ prod' = [prod EXCEPT ![p] = IdleProducer]
                /\ calls' = [calls EXCEPT ![prod[p].call].result = "panic"]
        /\ UNCHANGED <<wp, shards, workers, allocated, workerCache, run, cleanup,
                       stopc, budget>>

\* a getWorker that does not look at slot A
getWorker_load1_skipping(p) ==
    /\ Alive
    /\ prod[p].pc = "load1"
    /\ prod' = [prod EXCEPT ![p].worker = NoWorker, ![p].pc = "loadwp"]
    /\ UNCHANGED <<wp, shards, workers, allocated, workerCache, run, cleanup,
                   stopc, calls, budget>>

\* --------------------------------------------------------------- getWorker
\* worker = shard.idleWorker1
getWorker_load1(p) ==
    LET w == shards[prod[p].shard].idleWorker1
    IN  /\ Alive
        /\ prod[p].pc = "load1"
        /\ prod' = [prod EXCEPT ![p].worker = w,
                                ![p].pc = IF w # NoWorker THEN "cas1" ELSE "loadwp"]
        /\ UNCHANGED <<wp, shards, workers, allocated, workerCache, run, cleanup,
                       stopc, calls, budget>>

\* CompareAndSwapPointer(&shard.idleWorker1, worker, nil)
getWorker_cas1(p) ==
    LET s == prod[p].shard
    IN  /\ Alive
        /\ prod[p].pc = "cas1"
        /\ IF shards[s].idleWorker1 = prod[p].worker
           THEN /\ shards' = [shards EXCEPT ![s].idleWorker1 = NoWorker]
                /\ prod' = [prod EXCEPT ![p].pc = "send"]
           ELSE /\ prod' = [prod EXCEPT ![p].pc = "loadwp"]
                /\ UNCHANGED shards
        /\ UNCHANGED <<wp, workers, allocated, workerCache, run, cleanup, stopc,
                       calls, budget>>

\* worker = shard.wp.idleWorker1
getWorker_loadwp(p) ==
    /\ Alive
    /\ prod[p].pc = "loadwp"
    /\ prod' = [prod EXCEPT ![p].worker = wp.idleWorker1,
                            ![p].pc = IF wp.idleWorker1 # NoWorker THEN "caswp" ELSE "lock"]
    /\ UNCHANGED <<wp, shards, workers, allocated, workerCache, run, cleanup,
                   stopc, calls, budget>>

\* a getWorker that makes the worker of the pool-wide slot a worker of the
\* shard that takes it
getWorker_caswp_rehoming(p) ==
    /\ Alive
    /\ prod[p].pc = "caswp"
    /\ IF wp.idleWorker1 = prod[p].worker
       THEN /\ wp' = [wp EXCEPT !.idleWorker1 = NoWorker]
            /\ workers' = [workers EXCEPT ![prod[p].worker].shard = prod[p].shard]
            /\ prod' = [prod EXCEPT ![p].pc = "send"]
       ELSE /\ prod' = [prod EXCEPT ![p].pc = "lock"]
            /\ UNCHANGED <<wp, workers>>
    /\ UNCHANGED <<shards, allocated, workerCache, run, cleanup, stopc,
                   calls, budget>>

\* CompareAndSwapPointer(&shard.wp.idleWorker1, worker, nil)
getWorker_caswp(p) ==
    /\ Alive
    /\ prod[p].pc = "caswp"
    /\ IF wp.idleWorker1 = prod[p].worker
       THEN /\ wp' = [wp EXCEPT !.idleWorker1 = NoWorker]
            /\ prod' = [prod EXCEPT ![p].pc = "send"]
       ELSE /\ prod' = [prod EXCEPT ![p].pc = "lock"]
            /\ UNCHANGED wp
    /\ UNCHANGED <<shards, workers, allocated, workerCache, run, cleanup, stopc,
                   calls, budget>>

\* a getWorker that enters its critical section without waiting for the lock
getWorker_lock_barging(p) ==
    LET s == prod[p].shard
    IN  /\ Alive
        /\ prod[p].pc = "lock"
        /\ shards' = [shards EXCEPT ![s].mutex = 1]
        /\ prod' = [prod EXCEPT ![p].pc = "locked"]
        /\ UNCHANGED <<wp, workers, allocated, workerCache, run, cleanup, stopc,
                       calls, budget>>

\* shard.mutex.Lock()
getWorker_lock(p) ==
    LET s == prod[p].shard
    IN  /\ Alive
        /\ prod[p].pc = "lock"
        /\ shards[s].mutex = 0
        /\ shards' = [shards EXCEPT ![s].mutex = 1]
        /\ prod' = [prod EXCEPT ![p].pc = "locked"]
        /\ UNCHANGED <<wp, workers, allocated, workerCache, run, cleanup, stopc,
                       calls, budget>>

\* a getWorker whose critical section takes the tail of the idle list and
\* leaves slot B alone
getWorkerLockedTailOnly(sh) ==
    LET iws == Len(sh.idleWorkerList)
    IN  IF sh.idleWorker2 # NoWorker
        THEN [worker |-> sh.idleWorker2,
              shard |-> [sh EXCEPT !.idleWorker2 = NoWorker, !.mutex = 0]]
        ELSE IF iws > 0
        THEN [worker |-> sh.idleWorkerList[iws],
              shard |-> [sh EXCEPT !.idleWorkerList = Prefix(sh.idleWorkerList, iws - 1),
                                   !.mutex = 0]]
        ELSE [worker |-> NoWorker, shard |-> [sh EXCEPT !.mutex = 0]]

\* getWorker's critical section on a shard record: the worker it returns
\* (NoWorker: none, go on and spawn) and the shard it leaves, unlocked
getWorkerLocked(sh) ==
    LET iws == Len(sh.idleWorkerList)
    IN  IF sh.idleWorker2 # NoWorker
        THEN [worker |-> sh.idleWorker2,
              shard |-> [sh EXCEPT !.idleWorker2 = NoWorker, !.mutex = 0]]
        ELSE IF iws > 1
        THEN [worker |-> sh.idleWorkerList[iws],
              shard |-> [sh EXCEPT !.idleWorker2 = sh.idleWorkerList[iws - 1],
                                   !.idleWorkerList = Prefix(sh.idleWorkerList, iws - 2),
                                   !.mutex = 0]]
        ELSE IF iws > 0
        THEN [worker |-> sh.idleWorkerList[iws],
              shard |-> [sh EXCEPT !.idleWorkerList = Prefix(sh.idleWorkerList, iws - 1),
                                   !.mutex = 0]]
        ELSE [worker |-> NoWorker, shard |-> [sh EXCEPT !.mutex = 0]]

\* the critical section of getWorker, to its Unlock
getWorker_locked(p) ==
    LET s == prod[p].shard
        got == getWorkerLocked(shards[s])
    IN  /\ Alive
        /\ prod[p].pc = "locked"
        /\ shards' = [shards EXCEPT ![s] = got.shard]
        /\ prod' = [prod EXCEPT ![p].worker = got.worker,
                                ![p].pc = IF got.worker # NoWorker THEN "send" ELSE "spawn"]
        /\ UNCHANGED <<wp, workers, allocated, workerCache, run, cleanup, stopc,
                       calls, budget>>

\* what workerCache.Get() may return: an object that was Put, or a new one
\* (sync.Pool may drop what it holds at any time).  New objects are numbered
\* in the order of their creation.
CacheGet ==
    workerCache \cup
        (IF Workers \ allocated = {} THEN {}
         ELSE {CHOOSE w \in Workers \ allocated : \A v \in Workers \ allocated : w <= v})

\* a getWorker that lacks the `go worker.run()`
getWorker_spawn_unstarted(p) ==
    /\ Alive
    /\ prod[p].pc = "spawn"
    /\ \E w \in CacheGet :
          /\ workers' = [workers EXCEPT ![w].shard = prod[p].shard]
          /\ allocated' = allocated \cup {w}
          /\ workerCache' = workerCache \ {w}
          /\ prod' = [prod EXCEPT ![p].worker = w, ![p].pc = "send"]
    /\ UNCHANGED <<wp, shards, run, cleanup, stopc, calls, budget>>

\* worker = workerCache.Get(); worker.shard = shard; go worker.run()
getWorker_spawn(p) ==
    /\ Alive
    /\ prod[p].pc = "spawn"
    /\ \E w \in CacheGet :
          /\ workers' = [workers EXCEPT ![w].shard = prod[p].shard]
          /\ allocated' = allocated \cup {w}
          /\ workerCache' = workerCache \ {w}
          /\ run' = [run EXCEPT ![w] = [pc |-> "start", task |-> NilTask]]
          /\ prod' = [prod EXCEPT ![p].worker = w, ![p].pc = "send"]
    /\ UNCHANGED <<wp, shards, cleanup, stopc, calls, budget>>

\* a send whose receiver hands every task, nil included, to the handler
AddTask_send_handling(p) ==
    LET w == prod[p].worker
        c == prod[p].call
    IN  /\ Alive
        /\ prod[p].pc = "send"
        /\ IF workers[w].taskChan = "closed"
           THEN /\ calls' = [calls EXCEPT ![c].result = "panic"]
                /\ UNCHANGED run
           ELSE /\ run[w].pc = "recv"
                /\ run' = [run EXCEPT ![w] = [pc |-> "handler", task |-> c]]
                /\ calls' = [calls EXCEPT ![c].result = "ok",
                                          ![c].invoked = @ + 1]
        /\ prod' = [prod EXCEPT ![p] = IdleProducer]
        /\ UNCHANGED <<wp, shards, workers, allocated, workerCache, cleanup, stopc,
                       budget>>

\* worker.taskChan <- task: a send on a closed channel panics; on an open
\* unbuffered channel it completes when the worker's goroutine is in its
\* receive.  The worker leaves its loop on a nil task and calls the handler
\* on any other.
AddTask_send(p) ==
    LET w == prod[p].worker
        c == prod[p].call
    IN  /\ Alive
        /\ prod[p].pc = "send"
        /\ IF workers[w].taskChan = "closed"
           THEN /\ calls' = [calls EXCEPT ![c].result = "panic"]
                /\ UNCHANGED run
           ELSE /\ run[w].pc = "recv"
                /\ IF calls[c].task = NilTask
                   THEN /\ run' = [run EXCEPT ![w].pc = "exit"]
                        /\ calls' = [calls EXCEPT ![c].result = "ok"]
                   ELSE /\ run' = [run EXCEPT ![w] = [pc |-> "handler", task |-> c]]
                        /\ calls' = [calls EXCEPT ![c].result = "ok",
                                                  ![c].invoked = @ + 1]
        /\ prod' = [prod EXCEPT ![p] = IdleProducer]
        /\ UNCHANGED <<wp, shards, workers, allocated, workerCache, cleanup, stopc,
                       budget>>

\* a run that lacks the atomic.AddUint64(&wp.spawnedWorkers, +1)
run_start_uncounted(w) ==
    /\ Alive
    /\ run[w].pc = "start"
    /\ run' = [run EXCEPT ![w].pc = "recv"]
    /\ UNCHANGED <<wp, shards, workers, allocated, workerCache, prod, cleanup,
                   stopc, calls, budget>>

\* ------------------------------------------------------------ worker.run()
\* atomic.AddUint64(&wp.spawnedWorkers, +1), then the first receive
run_start(w) ==
    /\ Alive
    /\ run[w].pc = "start"
    /\ wp' = [wp EXCEPT !.spawnedWorkers = @ + 1]
    /\ run' = [run EXCEPT ![w].pc = "recv"]
    /\ UNCHANGED <<shards, workers, allocated, workerCache, prod, cleanup, stopc,
                   calls, budget>>

\* `for task := range worker.taskChan` ends when the channel is closed
run_closed(w) ==
    /\ Alive
    /\ run[w].pc = "recv"
    /\ workers[w].taskChan = "closed"
    /\ run' = [run EXCEPT ![w].pc = "exit"]
    /\ UNCHANGED <<wp, shards, workers, allocated, workerCache, prod, cleanup,
                   stopc, calls, budget>>

\* wp.handlerFunc(task) returns and setWorkerIdle begins:
\* worker.lastUsed = time.Now()
run_handler(w) ==
    /\ Alive
    /\ run[w].pc = "handler"
    /\ calls' = [calls EXCEPT ![run[w].task].handled = TRUE]
    /\ workers' = [workers EXCEPT ![w].lastUsed = 0]
    /\ run' = [run EXCEPT ![w] = [pc |-> "load1", task |-> NilTask]]
    /\ UNCHANGED <<wp, shards, allocated, workerCache, prod, cleanup, stopc, budget>>

\* shard.idleWorker1 == nil
setWorkerIdle_load1(w) ==
    /\ Alive
    /\ run[w].pc = "load1"
    /\ run' = [run EXCEPT ![w].pc =
          IF shards[workers[w].shard].idleWorker1 = NoWorker THEN "cas1" ELSE "loadwp"]
    /\ UNCHANGED <<wp, shards, workers, allocated, workerCache, prod, cleanup,
                   stopc, calls, budget>>

\* CompareAndSwapPointer(&shard.idleWorker1, nil, worker)
setWorkerIdle_cas1(w) ==
    LET s == workers[w].shard
    IN  /\ Alive
        /\ run[w].pc = "cas1"
        /\ IF shards[s].idleWorker1 = NoWorker
           THEN /\ shards' = [shards EXCEPT ![s].idleWorker1 = w]
                /\ run' = [run EXCEPT ![w].pc = "recv"]
           ELSE /\ run' = [run EXCEPT ![w].pc = "loadwp"]
                /\ UNCHANGED shards
        /\ UNCHANGED <<wp, workers, allocated, workerCache, prod, cleanup, stopc,
                       calls, budget>>

\* shard.wp.idleWorker1 == nil
setWorkerIdle_loadwp(w) ==
    /\ Alive
    /\ run[w].pc = "loadwp"
    /\ run' = [run EXCEPT ![w].pc = IF wp.idleWorker1 = NoWorker THEN "caswp" ELSE "lock"]
    /\ UNCHANGED <<wp, shards, workers, allocated, workerCache, prod, cleanup,
                   stopc, calls, budget>>

\* CompareAndSwapPointer(&shard.wp.idleWorker1, nil, worker)
setWorkerIdle_caswp(w) ==
    /\ Alive
    /\ run[w].pc = "caswp"
    /\ IF wp.idleWorker1 = NoWorker
       THEN /\ wp' = [wp EXCEPT !.idleWorker1 = w]
            /\ run' = [run EXCEPT ![w].pc = "recv"]
       ELSE /\ run' = [run EXCEPT ![w].pc = "lock"]
            /\ UNCHANGED wp
    /\ UNCHANGED <<shards, workers, allocated, workerCache, prod, cleanup, stopc,
                   calls, budget>>

\* worker.shard.mutex.Lock()
setWorkerIdle_lock(w) ==
    LET s == workers[w].shard
    IN  /\ Alive
        /\ run[w].pc = "lock"
        /\ shards[s].mutex = 0
        /\ shards' = [shards EXCEPT ![s].mutex = 1]
        /\ run' = [run EXCEPT ![w].pc = "locked"]
        /\ UNCHANGED <<wp, workers, allocated, workerCache, prod, cleanup, stopc,
                       calls, budget>>

\* a setWorkerIdle whose critical section appends to the idle list without
\* looking at slot B
setWorkerIdleLockedAppending(sh, w) ==
    IF ~sh.stopped
    THEN [ret |-> TRUE, shard |-> [sh EXCEPT !.idleWorkerList = Append(@, w), !.mutex = 0]]
    ELSE [ret |-> FALSE, shard |-> [sh EXCEPT !.mutex = 0]]

\* setWorkerIdle's critical section on a shard record: what it returns and
\* the shard it leaves, unlocked
setWorkerIdleLocked(sh, w) ==
    IF ~sh.stopped
    THEN [ret |-> TRUE,
          shard |-> IF sh.idleWorker2 = NoWorker
                    THEN [sh EXCEPT !.idleWorker2 = w, !.mutex = 0]
                    ELSE [sh EXCEPT !.idleWorkerList = Append(@, w), !.mutex = 0]]
    ELSE [ret |-> FALSE, shard |-> [sh EXCEPT !.mutex = 0]]

\* a setWorkerIdle that returns without worker.shard.mutex.Unlock()
setWorkerIdle_locked_held(w) ==
    LET s == workers[w].shard
        got == setWorkerIdleLocked(shards[s], w)
    IN  /\ Alive
        /\ run[w].pc = "locked"
        /\ shards' = [shards EXCEPT ![s] = [got.shard EXCEPT !.mutex = 1]]
        /\ run' = [run EXCEPT ![w].pc = IF got.ret THEN "recv" ELSE "exit"]
        /\ UNCHANGED <<wp, workers, allocated, workerCache, prod, cleanup, stopc,
                       calls, budget>>

\* the critical section of setWorkerIdle, to its Unlock; run() breaks out of
\* its loop when setWorkerIdle returns false
setWorkerIdle_locked(w) ==
    LET s == workers[w].shard
        got == setWorkerIdleLocked(shards[s], w)
    IN  /\ Alive
        /\ run[w].pc = "locked"
        /\ shards' = [shards EXCEPT ![s] = got.shard]
        /\ run' = [run EXCEPT ![w].pc = IF got.ret THEN "recv" ELSE "exit"]
        /\ UNCHANGED <<wp, workers, allocated, workerCache, prod, cleanup, stopc,
                       calls, budget>>

\* after the loop: atomic.AddUint64(&wp.spawnedWorkers, ^uint64(0)) and
\* wp.workerCache.Put(worker); the goroutine ends
run_exit(w) ==
    /\ Alive
    /\ run[w].pc = "exit"
    /\ wp' = [wp EXCEPT !.spawnedWorkers = @ - 1]
    /\ workerCache' = workerCache \cup {w}
    /\ run' = [run EXCEPT ![w] = NoRun]
    /\ UNCHANGED <<shards, workers, allocated, prod, cleanup, stopc, calls, budget>>

\* --------------------------------------------------------------- cleanup()
\* now.Sub(worker.lastUsed) < wp.idleWorkerLifetime, with `now` captured
\* `age` ago
Fresh(w, age) == workers[w].lastUsed - age < idleWorkerLifetime

\* the halving probe of a list longer than bisectThreshold; s is a 0-based
\* index
RECURSIVE Bisect(_, _, _)
Bisect(list, s, age) ==
    IF s > 0 /\ Fresh(list[s + 1], age) THEN Bisect(list, s \div 2, age) ELSE s

\* the number j of workers cleanup cuts from the head of a shard's idle list
CleanupCut(list, age) ==
    LET iws == Len(list)
        s == IF iws > bisectThreshold THEN Bisect(list, (iws - 1) \div 2, age) ELSE 0
    IN  IF iws > bisectThreshold /\ s = 0 THEN 0
        ELSE IF s < iws /\ Fresh(list[s + 1], age) THEN s
        ELSE Max(s, iws)

\* a cleanup goroutine is between its time.Now() and the end of that pass
InPass(r) == cleanup[r].pc \in {"lock", "scan", "check", "send"}

\* where cleanup goes when it is done with shard i: the next shard, or to
\* sleep again
NextShard(c) ==
    IF c.i < wp.numShards
    THEN [c EXCEPT !.pc = "lock", !.i = c.i + 1, !.toBeCleaned = <<>>]
    ELSE [c EXCEPT !.pc = "sleep", !.i = 0, !.now = 0, !.toBeCleaned = <<>>]

\* where cleanup goes when it is done with the head of toBeCleaned
NextCleaned(c) ==
    IF Len(c.toBeCleaned) > 1
    THEN [c EXCEPT !.pc = "check", !.toBeCleaned = Tail(c.toBeCleaned)]
    ELSE NextShard(c)

\* a cleanup that lacks `if wp.stopped { return }`
cleanup_wake_unstopped(r) ==
    /\ Alive
    /\ cleanup[r].pc = "sleep"
    /\ cleanup[r].now >= idleWorkerLifetime
    /\ cleanup' = [cleanup EXCEPT ![r] = [NoCleanup EXCEPT !.pc = "lock", !.i = 1]]
    /\ UNCHANGED <<wp, shards, workers, allocated, workerCache, run, prod, stopc,
                   calls, budget>>

\* time.Sleep(wp.idleWorkerLifetime) returns; `if wp.stopped { return }`;
\* now := time.Now()
cleanup_wake(r) ==
    /\ Alive
    /\ cleanup[r].pc = "sleep"
    /\ cleanup[r].now >= idleWorkerLifetime
    /\ cleanup' = [cleanup EXCEPT ![r] =
          IF wp.stopped THEN [NoCleanup EXCEPT !.pc = "done"]
          ELSE [NoCleanup EXCEPT !.pc = "lock", !.i = 1]]
    /\ UNCHANGED <<wp, shards, workers, allocated, workerCache, run, prod, stopc,
                   calls, budget>>

\* shard.mutex.Lock()
cleanup_lock(r) ==
    LET i == cleanup[r].i
    IN  /\ Alive
        /\ cleanup[r].pc = "lock"
        /\ shards[i].mutex = 0
        /\ shards' = [shards EXCEPT ![i].mutex = 1]
        /\ cleanup' = [cleanup EXCEPT ![r].pc = "scan"]
        /\ UNCHANGED <<wp, workers, allocated, workerCache, run, prod, stopc,
                       calls, budget>>

\* a critical section of cleanup whose `if j == 0 { continue }` lacks the
\* shard.mutex.Unlock()
cleanup_scan_keeping(r) ==
    LET i == cleanup[r].i
        list == shards[i].idleWorkerList
        j == CleanupCut(list, cleanup[r].now)
    IN  /\ Alive
        /\ cleanup[r].pc = "scan"
        /\ shards' = [shards EXCEPT ![i].idleWorkerList = Suffix(list, j),
                                    ![i].mutex = IF j = 0 THEN 1 ELSE 0]
        /\ cleanup' = [cleanup EXCEPT ![r] =
              IF j = 0 THEN NextShard(cleanup[r])
              ELSE [cleanup[r] EXCEPT !.pc = "check", !.toBeCleaned = Prefix(list, j)]]
        /\ UNCHANGED <<wp, workers, allocated, workerCache, run, prod, stopc,
                       calls, budget>>

\* the critical section of cleanup on shard i, to its Unlock: cut the first j
\* workers from the idle list into toBeCleaned
cleanup_scan(r) ==
    LET i == cleanup[r].i
        list == shards[i].idleWorkerList
        j == CleanupCut(list, cleanup[r].now)
    IN  /\ Alive
        /\ cleanup[r].pc = "scan"
        /\ shards' = [shards EXCEPT ![i].idleWorkerList = Suffix(list, j),
                                    ![i].mutex = 0]
        /\ cleanup' = [cleanup EXCEPT ![r] =
              IF j = 0 THEN NextShard(cleanup[r])
              ELSE [cleanup[r] EXCEPT !.pc = "check", !.toBeCleaned = Prefix(list, j)]]
        /\ UNCHANGED <<wp, workers, allocated, workerCache, run, prod, stopc,
                       calls, budget>>

\* `if !toBeCleaned[j].shard.stopped`, read without the shard's lock
cleanup_check(r) ==
    LET w == Head(cleanup[r].toBeCleaned)
    IN  /\ Alive
        /\ cleanup[r].pc = "check"
        /\ cleanup' = [cleanup EXCEPT ![r] =
              IF shards[workers[w].shard].stopped THEN NextCleaned(cleanup[r])
              ELSE [cleanup[r] EXCEPT !.pc = "send"]]
        /\ UNCHANGED <<wp, shards, workers, allocated, workerCache, run, prod,
                       stopc, calls, budget>>

\* toBeCleaned[j].taskChan <- nil: the shutdown sentinel.  The send panics on
\* a closed channel, and the panic of this goroutine ends the process.
cleanup_send(r) ==
    LET w == Head(cleanup[r].toBeCleaned)
    IN  /\ Alive
        /\ cleanup[r].pc = "send"
        /\ IF workers[w].taskChan = "closed"
           THEN /\ cleanup' = [cleanup EXCEPT ![r].pc = "panic"]
                /\ UNCHANGED run
           ELSE /\ run[w].pc = "recv"
                /\ run' = [run EXCEPT ![w].pc = "exit"]
                /\ cleanup' = [cleanup EXCEPT ![r] = NextCleaned(cleanup[r])]
        /\ UNCHANGED <<wp, shards, workers, allocated, workerCache, prod, stopc,
                       calls, budget>>

\* -------------------------------------------------------------------- time
\* One unit of time passes.  Ages saturate at MaxAge, a sleeping cleanup's
\* timer at the time it sleeps; a pass of cleanup takes at most
\* MaxAge - idleWorkerLifetime units, so that the saturated ages compare as
\* the real ones.
Tick ==
    /\ Alive
    /\ \A r \in Reapers : InPass(r) => cleanup[r].now < MaxAge - idleWorkerLifetime
    /\ workers' = [w \in Workers |->
          [workers[w] EXCEPT !.lastUsed = Min(@ + 1, MaxAge)]]
    /\ cleanup' = [r \in Reapers |->
          IF cleanup[r].pc = "sleep"
          THEN [cleanup[r] EXCEPT !.now = Min(@ + 1, idleWorkerLifetime)]
          ELSE IF InPass(r) THEN [cleanup[r] EXCEPT !.now = @ + 1]
          ELSE cleanup[r]]
    /\ <<workers, cleanup>> # <<workers', cleanup'>>
    /\ UNCHANGED <<wp, shards, allocated, workerCache, run, prod, stopc, calls,
                   budget>>

\* ----------------------------------------------------------- initial states
\* the pool as NewWorkerPool returns it
NewPool ==
    /\ wp = NewWorkerPool
    /\ shards = <<>>
    /\ workers = [w \in Workers |-> NewWorker]
    /\ allocated = {}
    /\ workerCache = {}
    /\ run = [w \in Workers |-> NoRun]
    /\ prod = [p \in Producers |-> IdleProducer]
    /\ cleanup = [r \in Reapers |-> NoCleanup]
    /\ stopc = [k \in Stoppers |-> IdleStopper]
    /\ calls = <<>>
    /\ budget = [starts |-> MaxStarts, stops |-> 1, tasks |-> 1, nils |-> MaxNils,
                 setShards |-> 1]

\* setWorkerIdle(w) run with nothing else running: the slots and the shard
\* of w after it.  t is [shards, idleWorker1] (the shards and the pool's slot).
Parked(t, w, s) ==
    IF t.shards[s].idleWorker1 = NoWorker
    THEN [t EXCEPT !.shards[s].idleWorker1 = w]
    ELSE IF t.idleWorker1 = NoWorker
    THEN [t EXCEPT !.idleWorker1 = w]
    ELSE [t EXCEPT !.shards[s] = setWorkerIdleLocked(@, w).shard]

\* workers w .. k parked one after the other, all of shard 1
RECURSIVE ParkedAll(_, _, _)
ParkedAll(t, w, k) == IF w > k THEN t ELSE ParkedAll(Parked(t, w, 1), w + 1, k)

\* A pool in use, with one shard: k + b tasks were added one after the other
\* while no worker was idle, so each call started a worker; the handlers of
\* the first k have returned, one after the other, those of the last b are
\* still running.  Of the k idle workers the first st were stamped
\* idleWorkerLifetime ago, the others just now; cleanup is about to wake up.
PoolInUse(k, b, st, calls0) ==
    LET t == ParkedAll([shards |-> <<NewShard>>, idleWorker1 |-> NoWorker], 1, k)
    IN  /\ wp = [NewWorkerPool EXCEPT !.started = TRUE, !.numShards = 1,
                                      !.acquireCounter = k + b - 1,
                                      !.spawnedWorkers = k + b,
                                      !.idleWorker1 = t.idleWorker1]
        /\ shards = t.shards
        /\ workers = [w \in Workers |->
              IF w <= k + b
              THEN [NewWorker EXCEPT !.shard = 1,
                                     !.lastUsed = IF w <= st THEN idleWorkerLifetime
                                                  ELSE IF w <= k THEN 0 ELSE MaxAge]
              ELSE NewWorker]
        /\ allocated = 1 .. (k + b)
        /\ workerCache = {}
        /\ run = [w \in Workers |->
              IF w <= k THEN [pc |-> "recv", task |-> NilTask]
              ELSE IF w <= k + b THEN [pc |-> "handler", task |-> w]
              ELSE NoRun]
        /\ prod = [p \in Producers |-> IdleProducer]
        /\ cleanup = [r \in Reapers |->
              IF r = 1 THEN [NoCleanup EXCEPT !.pc = "sleep", !.now = idleWorkerLifetime]
              ELSE NoCleanup]
        /\ stopc = [k2 \in Stoppers |-> IdleStopper]
        /\ calls = [c \in 1 .. (k + b) |->
              [task |-> c, result |-> "ok", afterStop |-> FALSE, invoked |-> 1,
               handled |-> c <= k]]
        /\ budget = calls0

\* A pool in use whose three slots have been emptied: after the k workers of
\* PoolInUse(k, 0, st, _) were parked, AddTask(nil) was called three times,
\* one call after the other; getWorker handed out the workers of slot A, of
\* the pool-wide slot and of slot B, each took the nil for the sentinel, left
\* its loop and was put back into workerCache.  The idle list holds the
\* workers 4 .. k.
PoolDrained(k, st, calls0) ==
    /\ wp = [NewWorkerPool EXCEPT !.started = TRUE, !.numShards = 1,
                                  !.acquireCounter = k + 2,
                                  !.spawnedWorkers = k - 3]
    /\ shards = <<[NewShard EXCEPT !.idleWorkerList = [j \in 1 .. (k - 3) |-> j + 3]]>>
    /\ workers = [w \in Workers |->
          IF w <= k
          THEN [NewWorker EXCEPT !.shard = 1,
                                 !.lastUsed = IF w <= st THEN idleWorkerLifetime ELSE 0]
          ELSE NewWorker]
    /\ allocated = 1 .. k
    /\ workerCache = 1 .. 3
    /\ run = [w \in Workers |->
          IF 3 < w /\ w <= k THEN [pc |-> "recv", task |-> NilTask] ELSE NoRun]
    /\ prod = [p \in Producers |-> IdleProducer]
    /\ cleanup = [r \in Reapers |->
          IF r = 1 THEN [NoCleanup EXCEPT !.pc = "sleep", !.now = idleWorkerLifetime]
          ELSE NoCleanup]
    /\ stopc = [k2 \in Stoppers |-> IdleStopper]
    /\ calls = [c \in 1 .. (k + 3) |->
          IF c <= k
          THEN [task |-> c, result |-> "ok", afterStop |-> FALSE, invoked |-> 1,
                handled |-> TRUE]
          ELSE [task |-> NilTask, result |-> "ok", afterStop |-> FALSE,
                invoked |-> 0, handled |-> FALSE]]
    /\ budget = calls0

\* the calls still made on a pool in use with k idle and b busy workers: two
\* AddTask calls when two slots hold a worker and no handler runs, one
\* otherwise
CallsLeft(k, b) ==
    [starts |-> 0, stops |-> NumStoppers,
     tasks |-> IF k = 2 /\ b = 0 THEN MaxTasks ELSE MaxTasks - 1,
     nils |-> MaxNils, setShards |-> 0]

\* the pools in use that are initial states: up to MaxIdle idle workers, of
\* which those in the three slots are stale (their stamps are never read) and
\* those in the idle list stale up to any point; and up to MaxBusy running
\* handlers beside two or three idle workers
InUse ==
    {<<k, b, st>> \in (1 .. MaxIdle) \X (0 .. MaxBusy) \X (0 .. MaxIdle) :
        /\ Min(k, 3) <= st /\ st <= k
        /\ b > 0 => k \in {2, 3} /\ k + b <= MaxWorkers}

\* The initial states: the pool as constructed, and pools in use.
Init ==
    \/ NewPool
    \/ \E u \in InUse : PoolInUse(u[1], u[2], u[3], CallsLeft(u[1], u[2]))

\* ----------------------------------------------------------- specification
Next ==
    \/ \E n \in 0 .. MaxProcs : SetNumShards(n)
    \/ Start
    \/ \E k \in Stoppers : Stop_lock(k)
    \/ \E k \in Stoppers : Stop_shardLock(k)
    \/ \E k \in Stoppers : Stop_shard(k)
    \/ \E k \in Stoppers : Stop_finish(k)
    \/ \E p \in Producers, isNil \in BOOLEAN : AddTask_call(p, isNil)
    \/ \E p \in Producers : AddTask_store(p)
    \/ \E p \in Producers : AddTask_idx(p)
    \/ \E p \in Producers : getWorker_load1(p)
    \/ \E p \in Producers : getWorker_cas1(p)
    \/ \E p \in Producers : getWorker_loadwp(p)
    \/ \E p \in Producers : getWorker_caswp(p)
    \/ \E p \in Producers : getWorker_lock(p)
    \/ \E p \in Producers : getWorker_locked(p)
    \/ \E p \in Producers : getWorker_spawn(p)
    \/ \E p \in Producers : AddTask_send(p)
    \/ \E w \in Workers : run_start(w)
    \/ \E w \in Workers : run_closed(w)
    \/ \E w \in Workers : run_handler(w)
    \/ \E w \in Workers : setWorkerIdle_load1(w)
    \/ \E w \in Workers : setWorkerIdle_cas1(w)
    \/ \E w \in Workers : setWorkerIdle_loadwp(w)
    \/ \E w \in Workers : setWorkerIdle_caswp(w)
    \/ \E w \in Workers : setWorkerIdle_lock(w)
    \/ \E w \in Workers : setWorkerIdle_locked(w)
    \/ \E w \in Workers : run_exit(w)
    \/ \E r \in Reapers : cleanup_wake(r)
    \/ \E r \in Reapers : cleanup_lock(r)
    \/ \E r \in Reapers : cleanup_scan(r)
    \/ \E r \in Reapers : cleanup_check(r)
    \/ \E r \in Reapers : cleanup_send(r)
    \/ Tick

Spec == Init /\ [][Next]_vars

\* The pool's set-up and shut-down alone, with any argument of SetNumShards:
\* negative, zero, up to and over maxShards, and the 10000 of the example.
ShardArgs == ((0 - 2) .. MaxShardArg) \cup {10000}

ShardInit ==
    /\ wp = NewWorkerPool
    /\ shards = <<>>
    /\ workers = [w \in Workers |-> NewWorker]
    /\ allocated = {}
    /\ workerCache = {}
    /\ run = [w \in Workers |-> NoRun]
    /\ prod = [p \in Producers |-> IdleProducer]
    /\ cleanup = [r \in Reapers |-> NoCleanup]
    /\ stopc = [k \in Stoppers |-> IdleStopper]
    /\ calls = <<>>
    /\ budget = [starts |-> 1, stops |-> 1, tasks |-> 0, nils |-> 0, setShards |-> 1]

ShardNext ==
    \/ \E n \in ShardArgs : SetNumShards(n)
    \/ Start
    \/ \E k \in Stoppers : Stop_lock(k)
    \/ \E k \in Stoppers : Stop_shardLock(k)
    \/ \E k \in Stoppers : Stop_shard(k)
    \/ \E k \in Stoppers : Stop_finish(k)

ShardSpec == ShardInit /\ [][ShardNext]_vars

\* The Go scheduler runs every goroutine that can take a step, and time
\* passes: a caller inside AddTask or Stop, a worker and a reaper each get
\* their next step.  Nobody is obliged to call Start, Stop or AddTask.
ProducerStep(p) ==
    AddTask_store(p) \/ AddTask_idx(p) \/ getWorker_load1(p) \/ getWorker_cas1(p)
    \/ getWorker_loadwp(p) \/ getWorker_caswp(p) \/ getWorker_lock(p)
    \/ getWorker_locked(p) \/ getWorker_spawn(p) \/ AddTask_send(p)

StopperStep(k) == Stop_shardLock(k) \/ Stop_shard(k) \/ Stop_finish(k)

WorkerStep(w) ==
    run_start(w) \/ run_closed(w) \/ run_handler(w) \/ setWorkerIdle_load1(w)
    \/ setWorkerIdle_cas1(w) \/ setWorkerIdle_loadwp(w) \/ setWorkerIdle_caswp(w)
    \/ setWorkerIdle_lock(w) \/ setWorkerIdle_locked(w) \/ run_exit(w)

ReaperStep(r) ==
    cleanup_wake(r) \/ cleanup_lock(r) \/ cleanup_scan(r) \/ cleanup_check(r)
    \/ cleanup_send(r)

FairSpec == Init /\ [][Next]_vars /\ WF_vars(Tick)
    /\ \A p \in Producers : WF_vars(ProducerStep(p))
    /\ \A k \in Stoppers : WF_vars(StopperStep(k))
    /\ \A w \in Workers : WF_vars(WorkerStep(w))
    /\ \A r \in Reapers : WF_vars(ReaperStep(r))

\* A smaller family of initial states, for the properties of whole
\* behaviours: the pool as constructed, with one Start, one Stop and one
\* AddTask to come; pools in use <<k, b, st>> with `stops` Stop calls and
\* `tasks` AddTask calls to come; and a pool with nothing but stale workers
\* in its idle list, one AddTask to come and the reaper about to wake.
Calls(stops, tasks) ==
    [starts |-> 0, stops |-> stops, tasks |-> tasks, nils |-> MaxNils, setShards |-> 0]

LiveUse ==
    {<<1, 0, 1, 1, 1>>, <<1, 1, 1, 1, 0>>, <<3, 1, 3, 1, 0>>, <<4, 0, 4, 1, 1>>,
     <<5, 0, 4, 1, 0>>, <<2, 0, 2, 0, 2>>}

LiveInit ==
    \/ /\ wp = NewWorkerPool
       /\ shards = <<>>
       /\ workers = [w \in Workers |-> NewWorker]
       /\ allocated = {}
       /\ workerCache = {}
       /\ run = [w \in Workers |-> NoRun]
       /\ prod = [p \in Producers |-> IdleProducer]
       /\ cleanup = [r \in Reapers |-> NoCleanup]
       /\ stopc = [k \in Stoppers |-> IdleStopper]
       /\ calls = <<>>
       /\ budget = [starts |-> 1, stops |-> 1, tasks |-> 1, nils |-> MaxNils,
                    setShards |-> 1]
    \/ \E u \in LiveUse : PoolInUse(u[1], u[2], u[3], Calls(u[4], u[5]))
    \/ PoolDrained(MaxIdle, MaxIdle, Calls(0, 1))

\* A pool of two shards that has been in use for long: MaxInt + 1 tasks were
\* added (the calls are not kept), acquireCounter is at MaxInt, and the two
\* workers that are left idle in slot A of their shards.
PoolWorn(calls0) ==
    /\ wp = [NewWorkerPool EXCEPT !.started = TRUE, !.numShards = 2,
                                  !.acquireCounter = MaxInt,
                                  !.spawnedWorkers = 2]
    /\ shards = <<[NewShard EXCEPT !.idleWorker1 = 1], [NewShard EXCEPT !.idleWorker1 = 2]>>
    /\ workers = [w \in Workers |->
          IF w <= 2 THEN [NewWorker EXCEPT !.shard = w, !.lastUsed = 0] ELSE NewWorker]
    /\ allocated = 1 .. 2
    /\ workerCache = {}
    /\ run = [w \in Workers |->
          IF w <= 2 THEN [pc |-> "recv", task |-> NilTask] ELSE NoRun]
    /\ prod = [p \in Producers |-> IdleProducer]
    /\ cleanup = [r \in Reapers |->
          IF r = 1 THEN [NoCleanup EXCEPT !.pc = "sleep"] ELSE NoCleanup]
    /\ stopc = [k \in Stoppers |-> IdleStopper]
    /\ calls = <<>>
    /\ budget = calls0

\* A pool of two shards in use: three tasks were added, the first to shard
\* 1, the second to shard 2, the third to shard 1 while the first worker was
\* busy, so each call started a worker.  The handlers of the first and the
\* third have returned, in that order: worker 1 is in slot A of shard 1 and
\* worker 3, of shard 1 too, in the pool-wide slot.  The handler of the
\* second is still running.  The next call asks shard 2.
PoolSharded(calls0) ==
    /\ wp = [NewWorkerPool EXCEPT !.started = TRUE, !.numShards = 2,
                                  !.acquireCounter = 2,
                                  !.spawnedWorkers = 3,
                                  !.idleWorker1 = 3]
    /\ shards = <<[NewShard EXCEPT !.idleWorker1 = 1], NewShard>>
    /\ workers = [w \in Workers |->
          IF w <= 3
          THEN [NewWorker EXCEPT !.shard = IF w = 2 THEN 2 ELSE 1,
                                 !.lastUsed = IF w = 2 THEN MaxAge ELSE 0]
          ELSE NewWorker]
    /\ allocated = 1 .. 3
    /\ workerCache = {}
    /\ run = [w \in Workers |->
          IF w = 2 THEN [pc |-> "handler", task |-> 2]
          ELSE IF w <= 3 THEN [pc |-> "recv", task |-> NilTask]
          ELSE NoRun]
    /\ prod = [p \in Producers |-> IdleProducer]
    /\ cleanup = [r \in Reapers |->
          IF r = 1 THEN [NoCleanup EXCEPT !.pc = "sleep"] ELSE NoCleanup]
    /\ stopc = [k \in Stoppers |-> IdleStopper]
    /\ calls = [c \in 1 .. 3 |->
          [task |-> c, result |-> "ok", afterStop |-> FALSE, invoked |-> 1,
           handled |-> c # 2]]
    /\ budget = calls0

\* a started pool of two shards after use (the calls are not kept): worker 1
\* waits, stale, in the idle list of the first shard, every slot is empty,
\* the reaper is about to wake, and the next submission goes to the second
\* shard
PoolListedSharded(calls0) ==
    /\ wp = [NewWorkerPool EXCEPT !.started = TRUE, !.numShards = 2,
                                  !.acquireCounter = 0,
                                  !.spawnedWorkers = 1]
    /\ shards = <<[NewShard EXCEPT !.idleWorkerList = <<1>>], NewShard>>
    /\ workers = [w \in Workers |->
          IF w = 1 THEN [NewWorker EXCEPT !.shard = 1, !.lastUsed = idleWorkerLifetime]
          ELSE NewWorker]
    /\ allocated = {1}
    /\ workerCache = {}
    /\ run = [w \in Workers |->
          IF w = 1 THEN [pc |-> "recv", task |-> NilTask] ELSE NoRun]
    /\ prod = [p \in Producers |-> IdleProducer]
    /\ cleanup = [r \in Reapers |->
          IF r = 1 THEN [NoCleanup EXCEPT !.pc = "sleep", !.now = idleWorkerLifetime]
          ELSE NoCleanup]
    /\ stopc = [k \in Stoppers |-> IdleStopper]
    /\ calls = <<>>
    /\ budget = calls0

\* The same pools, and beside them the pools whose idle list is the only
\* place left to take a worker from, a pool with all three slots taken
\* and two handlers running, a pool whose acquireCounter is about to
\* overflow, and a pool of two shards with a worker in the pool-wide slot.
WideInit ==
    \/ LiveInit
    \/ \E k \in 4 .. MaxIdle : PoolDrained(k, k, Calls(1, 1))
    \/ PoolInUse(3, 2, 3, Calls(0, 0))
    \/ PoolWorn(Calls(0, MaxTasks))
    \/ PoolSharded([Calls(0, MaxTasks) EXCEPT !.nils = 0])
    \/ PoolListedSharded([Calls(1, 1) EXCEPT !.nils = 0])

WideSpec == WideInit /\ [][Next]_vars

\* Handlers that may never return: a Stop caller spinning on a lock gets it
\* when it is free again and again, and whoever is inside a shard's critical
\* section reaches its Unlock; no other step is promised, none of a handler.
StuckSpec == LiveInit /\ [][Next]_vars
    /\ \A k \in Stoppers : SF_vars(StopperStep(k))
    /\ \A p \in Producers : WF_vars(getWorker_locked(p))
    /\ \A w \in Workers : WF_vars(setWorkerIdle_locked(w))
    /\ \A r \in Reapers : WF_vars(cleanup_scan(r))

\* Fair scheduling and handlers that return: every worker and reaper gets
\* its next step, and so does a caller inside AddTask, also while it spins on
\* a shard lock that is free again and again (the reaper holds it for a
\* moment once per idleWorkerLifetime).
LiveSpec == LiveInit /\ [][Next]_vars /\ WF_vars(Tick)
    /\ \A p \in Producers : SF_vars(ProducerStep(p))
    /\ \A w \in Workers : WF_vars(WorkerStep(w))
    /\ \A r \in Reapers : WF_vars(ReaperStep(r))

\* One operation at a time: no goroutine is inside AddTask, inside a handler
\* or setWorkerIdle, inside a pass of cleanup or inside Stop.  (The first and
\* the last steps of a worker's goroutine, its increment and its decrement
\* with the Put, touch nothing an operation reads.)
Nobody ==
    /\ \A p \in Producers : prod[p].pc = "idle"
    /\ \A w \in Workers : run[w].pc \in {"none", "start", "recv", "exit"}
    /\ \A r \in Reapers : ~InPass(r)
    /\ \A k \in Stoppers : stopc[k].pc \in {"idle", "noop", "done"}

\* The pool used by one caller, with handlers that have returned and workers
\* that have released themselves before the next call is made, and cleanup
\* passes that fall between the calls: a new pool with SeqTasks calls to
\* come, and pools in use with no handler running or with the one handler
\* running whose return is the next operation.
SeqInit ==
    \/ /\ wp = NewWorkerPool
       /\ shards = <<>>
       /\ workers = [w \in Workers |-> NewWorker]
       /\ allocated = {}
       /\ workerCache = {}
       /\ run = [w \in Workers |-> NoRun]
       /\ prod = [p \in Producers |-> IdleProducer]
       /\ cleanup = [r \in Reapers |-> NoCleanup]
       /\ stopc = [k \in Stoppers |-> IdleStopper]
       /\ calls = <<>>
       /\ budget = [starts |-> 1, stops |-> 1, tasks |-> SeqTasks, nils |-> MaxNils,
                    setShards |-> 1]
    \/ \E u \in InUse : u[2] = 0 /\ PoolInUse(u[1], 0, u[3], Calls(1, MaxTasks))
    \/ \E k \in 1 .. 3 : PoolInUse(k, 1, k, Calls(1, 1))
    \/ \E k \in 4 .. MaxIdle : PoolDrained(k, k, Calls(1, MaxTasks))

SeqNext ==
    \/ \E n \in 0 .. MaxProcs : Nobody /\ SetNumShards(n)
    \/ Nobody /\ Start
    \/ \E k \in Stoppers : Nobody /\ Stop_lock(k)
    \/ \E k \in Stoppers : Stop_shardLock(k)
    \/ \E k \in Stoppers : Stop_shard(k)
    \/ \E k \in Stoppers : Stop_finish(k)
    \/ \E p \in Producers, isNil \in BOOLEAN : Nobody /\ AddTask_call(p, isNil)
    \/ \E p \in Producers : AddTask_store(p)
    \/ \E p \in Producers : AddTask_idx(p)
    \/ \E p \in Producers : getWorker_load1(p)
    \/ \E p \in Producers : getWorker_cas1(p)
    \/ \E p \in Producers : getWorker_loadwp(p)
    \/ \E p \in Producers : getWorker_caswp(p)
    \/ \E p \in Producers : getWorker_lock(p)
    \/ \E p \in Producers : getWorker_locked(p)
    \/ \E p \in Producers : getWorker_spawn(p)
    \/ \E p \in Producers : AddTask_send(p)
    \/ \E w \in Workers : run_start(w)
    \/ \E w \in Workers : run_closed(w)
    \/ \E w \in Workers : run_handler(w)
    \/ \E w \in Workers : setWorkerIdle_load1(w)
    \/ \E w \in Workers : setWorkerIdle_cas1(w)
    \/ \E w \in Workers : setWorkerIdle_loadwp(w)
    \/ \E w \in Workers : setWorkerIdle_caswp(w)
    \/ \E w \in Workers : setWorkerIdle_lock(w)
    \/ \E w \in Workers : setWorkerIdle_locked(w)
    \/ \E w \in Workers : run_exit(w)
    \/ \E r \in Reapers : Nobody /\ cleanup_wake(r)
    \/ \E r \in Reapers : cleanup_lock(r)
    \/ \E r \in Reapers : cleanup_scan(r)
    \/ \E r \in Reapers : cleanup_check(r)
    \/ \E r \in Reapers : cleanup_send(r)
    \/ Nobody /\ Tick

SeqSpec == SeqInit /\ [][SeqNext]_vars

\* getWorker and setWorkerIdle on any idle list: a started pool of one shard
\* whose idle list holds the workers 1 .. n, whose slot B holds worker n + 1
\* or none, and whose slot A and pool-wide slot are empty, with MaxTasks
\* AddTask calls to come and cleanup asleep.  The steps are those of AddTask
\* and of the workers it hands out, which release themselves into the two
\* empty slots.
PoolListed(n, b) ==
    /\ wp = [NewWorkerPool EXCEPT !.started = TRUE, !.numShards = 1,
                                  !.acquireCounter = n + b - 1,
                                  !.spawnedWorkers = n + b]
    /\ shards = <<[NewShard EXCEPT !.idleWorkerList = [j \in 1 .. n |-> j],
                                   !.idleWorker2 = IF b = 1 THEN n + 1 ELSE NoWorker]>>
    /\ workers = [w \in Workers |->
          IF w <= n + b THEN [NewWorker EXCEPT !.shard = 1, !.lastUsed = 0]
          ELSE NewWorker]
    /\ allocated = 1 .. (n + b)
    /\ workerCache = {}
    /\ run = [w \in Workers |->
          IF w <= n + b THEN [pc |-> "recv", task |-> NilTask] ELSE NoRun]
    /\ prod = [p \in Producers |-> IdleProducer]
    /\ cleanup = [r \in Reapers |->
          IF r = 1 THEN [NoCleanup EXCEPT !.pc = "sleep"] ELSE NoCleanup]
    /\ stopc = [k \in Stoppers |-> IdleStopper]
    /\ calls = [c \in 1 .. (n + b) |->
          [task |-> c, result |-> "ok", afterStop |-> FALSE, invoked |-> 1,
           handled |-> TRUE]]
    /\ budget = [starts |-> 0, stops |-> 0, tasks |-> MaxTasks, nils |-> 0,
                 setShards |-> 0]

PopInit == \E n \in 0 .. MaxIdle, b \in 0 .. 1 : n + b <= MaxWorkers /\ PoolListed(n, b)

PopNext ==
    \/ \E p \in Producers : AddTask_call(p, FALSE)
    \/ \E p \in Producers : AddTask_store(p)
    \/ \E p \in Producers : AddTask_idx(p)
    \/ \E p \in Producers : getWorker_load1(p)
    \/ \E p \in Producers : getWorker_cas1(p)
    \/ \E p \in Producers : getWorker_loadwp(p)
    \/ \E p \in Producers : getWorker_lock(p)
    \/ \E p \in Producers : getWorker_locked(p)
    \/ \E p \in Producers : getWorker_spawn(p)
    \/ \E p \in Producers : AddTask_send(p)
    \/ \E w \in Workers : run_start(w)
    \/ \E w \in Workers : run_handler(w)
    \/ \E w \in Workers : setWorkerIdle_load1(w)
    \/ \E w \in Workers : setWorkerIdle_cas1(w)
    \/ \E w \in Workers : setWorkerIdle_loadwp(w)
    \/ \E w \in Workers : setWorkerIdle_caswp(w)

PopSpec == PopInit /\ [][PopNext]_vars

\* ------------------------------------------------------------------ claims
\* the state of the pool, its shards and its workers: everything but the
\* callers' own records
poolVars == <<wp, shards, workers, allocated, workerCache, run, cleanup>>

\* worker w's goroutine is executing the handler with the task of call c
Executing(w, c) == run[w].pc = "handler" /\ run[w].task = c

\* C1: for every task for which AddTask returns nil, the handler is invoked
\* with that task exactly once: never twice, and once when the call has
\* returned nil.
C1_HandlerOncePerAcceptedTask ==
    \A c \in 1 .. Len(calls) :
        /\ calls[c].invoked <= 1
        /\ calls[c].result = "ok" => calls[c].invoked = 1

\* C1, for the calls whose task is not nil: this much the code keeps.
C1_HandlerOncePerNonNilTask ==
    \A c \in 1 .. Len(calls) :
        /\ calls[c].invoked <= 1
        /\ calls[c].result = "ok" /\ calls[c].task # NilTask => calls[c].invoked = 1

\* C2: every AddTask call that begins after a Stop has returned fails with
\* the "stopped" error.
C2_AddTaskFailsAfterStop ==
    \A c \in 1 .. Len(calls) :
        calls[c].afterStop /\ calls[c].result # "pending" => calls[c].result = "stopped"

\* C3: a task whose AddTask had returned nil when Stop was called is not
\* dropped: at any time after, its handler is running or has returned.  (A
\* task accepted and neither running nor done is never run: the handler is
\* called at the hand-off or not at all.)
C3_StopDropsNoAcceptedTask ==
    \A k \in Stoppers : \A c \in stopc[k].accepted :
        calls[c].handled \/ \E w \in Workers : Executing(w, c)

\* C3, for the calls whose task is not nil: Stop drops none of them.
C3_StopDropsNoNonNilTask ==
    \A k \in Stoppers : \A c \in stopc[k].accepted :
        calls[c].task # NilTask => calls[c].handled \/ \E w \in Workers : Executing(w, c)

\* the places that can hold worker w
InSlotA(w) == \E i \in 1 .. Len(shards) : shards[i].idleWorker1 = w
InSlotB(w) == \E i \in 1 .. Len(shards) : shards[i].idleWorker2 = w
InPoolSlot(w) == wp.idleWorker1 = w
ListPositions(w) ==
    {<<i, j>> \in (1 .. Len(shards)) \X (1 .. MaxWorkers) :
        j <= Len(shards[i].idleWorkerList) /\ shards[i].idleWorkerList[j] = w}
InHandOff(w) == \E p \in Producers : prod[p].pc = "send" /\ prod[p].worker = w
InHandler(w) == run[w].pc = "handler"
Retired(w) == w \in allocated /\ run[w].pc \in {"exit", "none"}

Holders(w) ==
    (IF InSlotA(w) THEN 1 ELSE 0) + (IF InSlotB(w) THEN 1 ELSE 0)
    + (IF InPoolSlot(w) THEN 1 ELSE 0) + Cardinality(ListPositions(w))
    + (IF InHandOff(w) THEN 1 ELSE 0) + (IF InHandler(w) THEN 1 ELSE 0)
    + (IF Retired(w) THEN 1 ELSE 0)

\* C4: at every moment a worker is held by at most one of: slot A of its
\* shard, slot B of its shard, the pool-wide slot, one position of one idle
\* list, an in-flight hand-off to a submitter, its handler, the retired state.
C4_WorkerHasOneHolder == \A w \in allocated : Holders(w) <= 1

\* C4 while no Stop has been called
C4_OneHolderBeforeStop ==
    (\A k \in Stoppers : stopc[k].pc = "idle") => \A w \in allocated : Holders(w) <= 1

\* C6: the reaper sends the shutdown sentinel only to workers whose last-use
\* time is at least the idle lifetime before the time it captured at the
\* start of its pass.
C6_ReaperRetiresOnlyStale ==
    \A r \in Reapers :
        cleanup[r].pc = "send" => ~Fresh(Head(cleanup[r].toBeCleaned), cleanup[r].now)

\* the cleanup goroutines that have been started and have not returned
RunningReapers == {r \in Reapers : cleanup[r].pc \notin {"none", "done", "panic"}}

\* C8: after any number of Start calls the pool is as after one: started,
\* numShards shards, and one reaper, no second one.
C8_StartIsIdempotent ==
    wp.started => Len(shards) = wp.numShards /\ Cardinality(RunningReapers) <= 1

\* C5: every spawned worker is in the end retired by the reaper, whichever
\* tier holds it: while the pool runs (started, not stopped, the process
\* alive) the count of live workers returns to 0.
C5_WorkerCountReturnsToZero ==
    wp.started ~> (wp.stopped \/ Crashed \/ wp.spawnedWorkers = 0)

\* a step in which a caller enters AddTask
AddTaskCalled == Len(calls') = Len(calls) + 1

\* a step in which a caller enters Stop and takes wp.mutex
StopCalled == \E k \in Stoppers : stopc[k].pc = "idle" /\ stopc'[k].pc # "idle"

\* C7: AddTask on a pool that has not been started returns the "not started"
\* error at once and changes nothing: no counter, no shard, no worker, and
\* the task is never handed to the handler.
C7_NotStartedChangesNothing ==
    /\ [][AddTaskCalled /\ ~wp.started =>
            /\ calls'[Len(calls')].result = "not started"
            /\ \A p \in Producers : prod'[p].pc = "idle"
            /\ UNCHANGED poolVars]_vars
    /\ [](\A c \in 1 .. Len(calls) :
            calls[c].result = "not started" => calls[c].invoked = 0 /\ ~calls[c].handled)

\* an AddTask has been rejected by a pool that was never started
C7_Rejected ==
    /\ ~wp.started
    /\ \E c \in 1 .. Len(calls) : calls[c].result = "not started"

\* C9: a Stop called after a Stop has returned changes nothing and returns
\* at once; no Stop closes a channel that is closed already.
C9_SecondStopChangesNothing ==
    /\ [][StopCalled /\ StopReturned =>
            /\ \A k \in Stoppers : stopc'[k].pc \in {"idle", "done"}
            /\ UNCHANGED poolVars]_vars
    /\ [](\A k \in Stoppers : stopc[k].pc # "panic")

\* two Stops have returned, and the workers the first one closed are still
\* in an idle list where a Stop walking the shards again would meet them
C9_StoppedTwice ==
    /\ \A k \in Stoppers : stopc[k].pc = "done"
    /\ \E i \in 1 .. Len(shards) : \E w \in Range(shards[i].idleWorkerList) :
           workers[w].taskChan = "closed"

\* C10: Stop on a pool that was never started is a no-op: it returns at
\* once, the pool stays not started and not stopped, nothing changes.
C10_StopBeforeStartIsNoOp ==
    /\ [][StopCalled /\ ~wp.started =>
            /\ \A k \in Stoppers : stopc'[k].pc \in {"idle", "noop"}
            /\ UNCHANGED poolVars]_vars
    /\ []((\A k \in Stoppers : stopc[k].pc \in {"idle", "noop"}) =>
            ~wp.stopped /\ \A i \in 1 .. Len(shards) : ~shards[i].stopped)

\* Stop was called before Start; the pool was then started and has run a task
C10_StartedAfterNoOpStop ==
    /\ \E k \in Stoppers : stopc[k].pc = "noop"
    /\ wp.started /\ ~wp.stopped
    /\ \E c \in 1 .. Len(calls) : calls[c].result = "ok" /\ calls[c].handled

\* C11: for every integer n, SetNumShards(n) followed by Start creates
\* exactly min(max(n, 1), 128) shards, and with SetNumShards called only
\* before Start the number of shards stays that value in every later state.
C11_ShardCountIsClamped ==
    /\ [][\A n \in ShardArgs :
            SetNumShards(n) => wp'.numShards = Min(Max(n, 1), 128)]_vars
    /\ [](wp.started => Len(shards) = wp.numShards /\ wp.numShards \in 1 .. 128)
    /\ [][wp.started =>
            wp'.numShards = wp.numShards /\ Len(shards') = Len(shards)]_vars

\* a pool started with 128 shards, which only an argument >= 128 gives
C11_StartedWithMaxShards == wp.started /\ Len(shards) = 128 /\ wp.numShards = 128

\* the worker goroutines getWorker has spawned whose loop has not exited
SpawnedNotExited == {w \in Workers : run[w].pc \notin {"none", "exit"}}

\* the worker goroutines between the increment at the top of run and the
\* decrement after its loop
Counted == {w \in Workers : run[w].pc \notin {"none", "start"}}

\* C12 as stated: at every state after Start, GetSpawnedWorkers equals the
\* workers ever spawned by getWorker minus the workers whose loop has exited,
\* and is never below 0.
C12_CountIsSpawnedMinusExited ==
    wp.started =>
        wp.spawnedWorkers = Cardinality(SpawnedNotExited) /\ wp.spawnedWorkers >= 0

\* C12, amended: at every state GetSpawnedWorkers equals the number of worker
\* goroutines that have done their increment and not yet their decrement; it
\* is never below 0, and equals spawned minus exited whenever no worker is
\* between its spawn and its increment or between its loop and its decrement.
C12_CountIsWorkersCounted ==
    /\ wp.spawnedWorkers = Cardinality(Counted)
    /\ wp.spawnedWorkers >= 0
    /\ (\A w \in Workers : run[w].pc \notin {"start", "exit"}) =>
           wp.spawnedWorkers = Cardinality(SpawnedNotExited)

\* getWorker has spawned a worker whose goroutine has not yet counted itself
C12_SpawnedNotYetCounted ==
    /\ wp.started
    /\ \E w \in Workers : run[w].pc = "start"
    /\ wp.spawnedWorkers < Cardinality(SpawnedNotExited)

\* C13: Stop does not wait for workers: a Stop that has taken the pool lock
\* returns, also when a handler never returns (unless the process dies).
C13_StopReturns ==
    \A k \in Stoppers :
        (stopc[k].pc # "idle") ~> (stopc[k].pc \in {"noop", "done"} \/ Crashed)

\* a Stop has walked the shards and returned while a handler is still running
C13_StoppedWhileHandlerRuns ==
    /\ \E k \in Stoppers : stopc[k].pc = "done" /\ stopc[k].i > 0
    /\ \E w \in Workers : run[w].pc = "handler"

\* C14: AddTask never sends on a closed task channel: every worker that
\* getWorker has returned to a submitter has an open channel, and no AddTask
\* call ends in the panic of a send on a closed channel.
C14_NoSendOnClosedChannel ==
    /\ \A p \in Producers :
           prod[p].pc = "send" => workers[prod[p].worker].taskChan = "open"
    /\ \A c \in 1 .. Len(calls) : calls[c].result # "panic"

\* worker w is inside setWorkerIdle
InSetWorkerIdle(w) ==
    run[w].pc \in {"load1", "cas1", "loadwp", "caswp", "lock", "locked"}

\* C15: setWorkerIdle parks no worker of a stopped shard, in slot A, in the
\* pool-wide slot, in slot B or in the idle list: whenever it returns true
\* (the worker goes back to its receive) the worker's shard is not stopped.
C15_NoParkingOnStoppedShard ==
    [][\A w \in Workers :
          InSetWorkerIdle(w) /\ run'[w].pc = "recv" =>
              ~shards[workers[w].shard].stopped]_vars

\* C15, for the locked path of setWorkerIdle alone: slot B and the idle list
\* take no worker of a stopped shard.
C15_LockedPathTestsStopped ==
    [][\A w \in Workers :
          run[w].pc = "locked" /\ run'[w].pc = "recv" =>
              ~shards[workers[w].shard].stopped]_vars

\* a step in which Stop caller k ends its critical section of a shard
StopLeavesShard(k) == stopc[k].pc = "shard" /\ stopc'[k].pc # "shard"

\* the workers in slot B of a shard
SlotB(sh) == IF sh.idleWorker2 = NoWorker THEN {} ELSE {sh.idleWorker2}

\* C16: when Stop unlocks a shard, every worker that was idle in the shard's
\* slot B or in its idle list when Stop locked it is marked deleted and its
\* task channel is closed.
C16_StopClosesSlotBAndList ==
    [][\A k \in Stoppers :
          StopLeavesShard(k) =>
              \A w \in SlotB(shards[stopc[k].i])
                       \cup Range(shards[stopc[k].i].idleWorkerList) :
                  workers'[w].isDeleted /\ workers'[w].taskChan = "closed"]_vars

\* C16, for the idle list alone: Stop marks and closes every worker in it.
C16_StopClosesList ==
    [][\A k \in Stoppers :
          StopLeavesShard(k) =>
              \A w \in Range(shards[stopc[k].i].idleWorkerList) :
                  workers'[w].isDeleted /\ workers'[w].taskChan = "closed"]_vars

\* a step in which reaper r drops the worker at the head of toBeCleaned
\* without a send, because it reads that the worker's shard is stopped
ReaperSkips(r) ==
    /\ cleanup[r].pc = "check"
    /\ shards[workers[Head(cleanup[r].toBeCleaned)].shard].stopped
    /\ cleanup'[r].toBeCleaned # cleanup[r].toBeCleaned

\* C17: whenever the reaper skips the sentinel send for a worker it has
\* removed from an idle list, Stop has closed that worker's channel, so the
\* worker is not left blocked in its receive.
C17_SkippedWorkerIsClosed ==
    [][\A r \in Reapers :
          ReaperSkips(r) =>
              workers[Head(cleanup[r].toBeCleaned)].taskChan = "closed"]_vars

\* C18: in every state each shard's idle list is sorted by last use, oldest
\* first: from head to tail the age of the stamp does not grow.
C18_IdleListSortedByLastUsed ==
    \A i \in 1 .. Len(shards) :
        \A j \in 1 .. Len(shards[i].idleWorkerList) - 1 :
            workers[shards[i].idleWorkerList[j]].lastUsed
                >= workers[shards[i].idleWorkerList[j + 1]].lastUsed

\* no Stop has been called
NeverStopped == \A k \in Stoppers : stopc[k].pc = "idle"

\* the worker handed to submitter p is a goroutine in its receive or on its
\* way there from its spawn, with an open channel: not retired, not handed
\* to anybody else
ReadyToReceive(p) ==
    /\ run[prod[p].worker].pc \in {"start", "recv"}
    /\ workers[prod[p].worker].taskChan = "open"

\* C19: on a started pool on which Stop is never called every AddTask call
\* returns in the end, and not by a panic: the worker getWorker handed out
\* reaches its receive, is not retired by the reaper meanwhile, and takes
\* the task.
C19_AddTaskReturns ==
    /\ \A p \in Producers : (prod[p].pc # "idle") ~> (prod[p].pc = "idle" \/ ~NeverStopped)
    /\ [](NeverStopped =>
            /\ Alive
            /\ \A c \in 1 .. Len(calls) : calls[c].result # "panic"
            /\ \A p \in Producers : prod[p].pc = "send" => ReadyToReceive(p))

\* a submitter blocked in its send: the worker handed to it has not reached
\* its receive yet
C19_SubmitterWaitsForWorker ==
    /\ NeverStopped
    /\ \E p \in Producers : prod[p].pc = "send" /\ run[prod[p].worker].pc = "start"

\* the worker goroutines inside wp.handlerFunc
InHandlerFunc == {w \in Workers : run[w].pc = "handler"}

\* C20: whenever AddTask has returned nil and the handler of its task has not
\* finished, the worker that received the task is counted: in every state
\* the workers executing the handler are at most GetSpawnedWorkers, and at
\* the return of a successful AddTask the count is at least 1.
C20_ReceivingWorkerIsCounted ==
    /\ [](Cardinality(InHandlerFunc) <= wp.spawnedWorkers)
    /\ [](InHandlerFunc \subseteq Counted)
    /\ [](\A c \in 1 .. Len(calls) :
            calls[c].result = "ok" /\ calls[c].invoked = 1 /\ ~calls[c].handled =>
                /\ \E w \in Counted : Executing(w, c)
                /\ wp.spawnedWorkers >= 1)
    /\ [][\A p \in Producers :
            AddTask_send(p) /\ calls'[prod[p].call].result = "ok" =>
                /\ prod[p].worker \in Counted /\ prod[p].worker \in Counted'
                /\ wp'.spawnedWorkers >= 1]_vars

\* AddTask has returned nil, the handler of its task has not finished, and
\* the worker running it is the only goroutine the count counts
C20_OnlyWorkerRunsHandler ==
    /\ wp.spawnedWorkers = 1
    /\ \E c \in 1 .. Len(calls) : \E w \in Workers :
           /\ calls[c].result = "ok" /\ ~calls[c].handled
           /\ Executing(w, c)
           /\ \A p \in Producers : prod[p].pc = "idle"
           /\ \A v \in Workers \ {w} : run[v].pc \in {"none", "exit"} /\ v \notin Counted

\* worker w's goroutine is appended to the idle list of shard s by this step
Appends(w, s) ==
    /\ setWorkerIdle_locked(w)
    /\ workers[w].shard = s
    /\ Len(shards'[s].idleWorkerList) > Len(shards[s].idleWorkerList)

\* C21 as stated: setWorkerIdle appends a worker to its shard's idle list only
\* in states where slot A of the shard, the pool-wide slot and slot B of the
\* shard all hold a worker at the moment of the append.
C21_AppendsWhenAllSlotsFull ==
    [][\A w \in Workers : \A s \in 1 .. Len(shards) :
          Appends(w, s) =>
              /\ shards[s].idleWorker1 # NoWorker
              /\ wp.idleWorker1 # NoWorker
              /\ shards[s].idleWorker2 # NoWorker]_vars

\* C21, amended: an idle list grows only by the critical section of
\* setWorkerIdle, by the one worker, on a shard not stopped whose slot B holds
\* a worker at that moment; and the worker came there only past slot A and
\* the pool-wide slot, each of which held a worker when setWorkerIdle last
\* looked at it (its load, or its failed compare-and-swap), not necessarily
\* still at the append.
C21_AppendsWhenSlotBFull ==
    /\ [][\A s \in 1 .. Len(shards) :
            Len(shards'[s].idleWorkerList) > Len(shards[s].idleWorkerList) =>
                /\ \E w \in Workers : Appends(w, s)
                /\ shards'[s].idleWorkerList =
                       Append(shards[s].idleWorkerList,
                              CHOOSE w \in Workers : Appends(w, s))
                /\ shards[s].idleWorker2 # NoWorker
                /\ ~shards[s].stopped]_vars
    /\ [][\A w \in Workers :
            /\ run[w].pc \in {"load1", "cas1"} /\ run'[w].pc = "loadwp" =>
                   shards[workers[w].shard].idleWorker1 # NoWorker
            /\ run[w].pc \in {"loadwp", "caswp"} /\ run'[w].pc = "lock" =>
                   wp.idleWorker1 # NoWorker
            /\ run'[w].pc = "loadwp" => run[w].pc \in {"load1", "cas1", "loadwp"}
            /\ run'[w].pc = "lock" => run[w].pc \in {"loadwp", "caswp", "lock"}
            /\ run'[w].pc = "locked" => run[w].pc \in {"lock", "locked"}]_vars

\* a worker is about to append itself to the idle list while slot A of its
\* shard is empty: a submitter took the worker of slot A after setWorkerIdle
\* had looked at it
C21_AppendsPastEmptiedSlot ==
    \E w \in Workers :
        /\ run[w].pc = "locked"
        /\ ~shards[workers[w].shard].stopped
        /\ shards[workers[w].shard].idleWorker2 # NoWorker
        /\ shards[workers[w].shard].idleWorker1 = NoWorker

\* the idle worker getWorker is to return on shard record sh with the
\* pool-wide slot holding g: that of slot A, else of the pool-wide slot, else
\* of slot B, else the last of the idle list; NoWorker when there is none
FirstIdle(sh, g) ==
    IF sh.idleWorker1 # NoWorker THEN sh.idleWorker1
    ELSE IF g # NoWorker THEN g
    ELSE IF sh.idleWorker2 # NoWorker THEN sh.idleWorker2
    ELSE IF Len(sh.idleWorkerList) > 0 THEN sh.idleWorkerList[Len(sh.idleWorkerList)]
    ELSE NoWorker

\* no AddTask call was made or is being made with a nil Task (which makes
\* the worker that takes it leave instead of releasing itself)
NoNilTask == \A c \in 1 .. Len(calls) : calls[c].task # NilTask

\* C22: with one operation at a time getWorker returns the worker of slot A,
\* else that of the pool-wide slot, else that of slot B, else the last of the
\* idle list, and starts a new worker only when there is none of these; the
\* count of spawned workers goes up only by a worker getWorker has just
\* started; and on one shard, with each call made after the worker of the
\* call before has released itself, no second worker is ever spawned.
C22_SpawnsOnlyWhenNoneIdle ==
    /\ [][\A p \in Producers :
            prod[p].pc \notin {"idle", "send"} /\ prod'[p].pc = "send" =>
                LET idle == FirstIdle(shards[prod[p].shard], wp.idleWorker1)
                IN  IF idle # NoWorker
                    THEN /\ prod'[p].worker = idle
                         /\ UNCHANGED <<run, allocated, workerCache>>
                         /\ wp'.spawnedWorkers = wp.spawnedWorkers
                    ELSE /\ getWorker_spawn(p)
                         /\ run[prod'[p].worker].pc = "none"
                         /\ run'[prod'[p].worker].pc = "start"]_vars
    /\ [][/\ wp'.spawnedWorkers > wp.spawnedWorkers =>
                \E w \in Workers : run[w].pc = "start" /\ run_start(w)
          /\ \A w \in Workers :
                run'[w].pc = "start" /\ run[w].pc # "start" =>
                    \E p \in Producers : getWorker_spawn(p) /\ prod'[p].worker = w]_vars
    /\ [][/\ wp.numShards = 1
          /\ Cardinality(allocated) <= 1
          /\ workerCache = {}
          /\ NoNilTask'
          => Cardinality(allocated') <= 1 /\ workerCache' = {}]_vars

\* three tasks were added one after the other to a pool of one shard, and
\* the one worker spawned for the first has run the handler for each
C22_OneWorkerForThreeTasks ==
    /\ wp.numShards = 1
    /\ Len(calls) = SeqTasks
    /\ \A c \in 1 .. Len(calls) : calls[c].result = "ok" /\ calls[c].handled
    /\ Cardinality(allocated) = 1
    /\ wp.spawnedWorkers = 1

\* C23: in getWorker's critical section with slot B empty and an idle list
\* of n >= 2 workers the call returns the last worker of the list, moves the
\* second-to-last into slot B and leaves the first n - 2 workers in their
\* order; with n = 1 it returns that worker and leaves the list and slot B
\* empty.
C23_LockedPathPopsTwo ==
    [][\A p \in Producers :
          getWorker_locked(p) /\ shards[prod[p].shard].idleWorker2 = NoWorker =>
              LET s == prod[p].shard
                  list == shards[s].idleWorkerList
                  n == Len(list)
              IN  /\ n >= 2 =>
                        /\ prod'[p].worker = list[n]
                        /\ prod'[p].pc = "send"
                        /\ shards'[s].idleWorker2 = list[n - 1]
                        /\ Len(shards'[s].idleWorkerList) = n - 2
                        /\ \A j \in 1 .. (n - 2) : shards'[s].idleWorkerList[j] = list[j]
                  /\ n = 1 =>
                        /\ prod'[p].worker = list[1]
                        /\ prod'[p].pc = "send"
                        /\ shards'[s].idleWorkerList = <<>>
                        /\ shards'[s].idleWorker2 = NoWorker
                  /\ shards'[s].mutex = 0
                  /\ shards'[s].idleWorker1 = shards[s].idleWorker1
                  /\ shards'[s].stopped = shards[s].stopped]_vars

\* getWorker has left its critical section with the last of five listed
\* workers, the fourth in slot B and the first three in the list
C23_PoppedTwoOfFive ==
    \E p \in Producers :
        /\ prod[p].pc = "send"
        /\ prod[p].worker = 5
        /\ shards[prod[p].shard].idleWorker2 = 4
        /\ shards[prod[p].shard].idleWorkerList = <<1, 2, 3>>

\* the goroutines between shard.mutex.Lock() and shard.mutex.Unlock() of
\* shard s: submitters in getWorker, workers in setWorkerIdle, reapers and
\* Stop callers
InCriticalSection(s) ==
    {<<"getWorker", p>> : p \in {q \in Producers : prod[q].pc = "locked" /\ prod[q].shard = s}}
    \cup {<<"setWorkerIdle", w>> :
             w \in {v \in Workers : run[v].pc = "locked" /\ workers[v].shard = s}}
    \cup {<<"cleanup", r>> : r \in {q \in Reapers : cleanup[q].pc = "scan" /\ cleanup[q].i = s}}
    \cup {<<"Stop", k>> : k \in {q \in Stoppers : stopc[q].pc \in {"shard", "panic"} /\ stopc[q].i = s}}

\* C24: each shard's spin lock gives mutual exclusion: at most one of the
\* submitters, workers, reapers and Stop callers is inside the shard's
\* critical section, the lock is held exactly while one is, and the idle
\* list and slot B of a shard are written only by the one inside, on its way
\* out.
C24_ShardLockExcludes ==
    /\ [](\A s \in 1 .. Len(shards) :
            /\ Cardinality(InCriticalSection(s)) <= 1
            /\ shards[s].mutex = 1 <=> InCriticalSection(s) # {})
    /\ [][\A s \in 1 .. Len(shards) :
            \/ shards'[s].idleWorkerList # shards[s].idleWorkerList
            \/ shards'[s].idleWorker2 # shards[s].idleWorker2
            => /\ shards[s].mutex = 1
               /\ Cardinality(InCriticalSection(s)) = 1
               /\ InCriticalSection(s)' = {}
               /\ shards'[s].mutex = 0]_vars

\* a worker is inside the critical section of its shard while a reaper and
\* a Stop caller wait for the same lock
C24_TwoWaitForTheLock ==
    \E s \in 1 .. Len(shards) :
        /\ shards[s].mutex = 1
        /\ \E w \in Workers : run[w].pc = "locked" /\ workers[w].shard = s
        /\ \E r \in Reapers : cleanup[r].pc = "lock" /\ cleanup[r].i = s
        /\ \E k \in Stoppers : stopc[k].pc = "shardLock" /\ stopc[k].i = s

\* the Stop callers between wp.mutex.Lock() and wp.mutex.Unlock()
InPoolCriticalSection == {k \in Stoppers : stopc[k].pc \in {"shardLock", "shard", "finish"}}

\* the lock of shard s is held
ShardLockHeld(s) == IF s <= Len(shards) THEN shards[s].mutex = 1 ELSE FALSE

\* C25: a worker that is executing the handler holds neither the pool lock
\* nor a shard lock: every lock that is held is held by a goroutine inside
\* getWorker's, setWorkerIdle's, cleanup's or Stop's critical section, none
\* of which is a worker in the handler; no lock is taken or kept by the step
\* that enters the handler; and every lock that is held is released again,
\* also when no handler ever returns, so that a handler calling AddTask does
\* not wait for its own worker.
C25_HandlerHoldsNoLock ==
    /\ [](/\ \A s \in 1 .. Len(shards) :
                shards[s].mutex = 1 =>
                    /\ InCriticalSection(s) # {}
                    /\ \A w \in Workers :
                          <<"setWorkerIdle", w>> \in InCriticalSection(s) =>
                              run[w].pc # "handler"
          /\ wp.mutex = 1 => InPoolCriticalSection # {})
    /\ [][\A w \in Workers :
            run[w].pc # "handler" /\ run'[w].pc = "handler" =>
                /\ wp'.mutex = wp.mutex
                /\ \A s \in 1 .. Len(shards) : shards'[s].mutex = shards[s].mutex]_vars
    /\ \A s \in 1 .. MaxProcs :
          ShardLockHeld(s) ~> ~ShardLockHeld(s)
    /\ (wp.mutex = 1) ~> (wp.mutex = 0)

\* a handler is running while Stop holds the pool lock and the lock of the
\* shard of the handler's worker
C25_HandlerRunsWhileStopHoldsLocks ==
    \E w \in Workers :
        /\ run[w].pc = "handler"
        /\ wp.mutex = 1
        /\ shards[workers[w].shard].mutex = 1
        /\ \E k \in Stoppers : stopc[k].pc = "shard" /\ stopc[k].i = workers[w].shard

\* the AddTask calls made so far on the started pool, the running one included
StartedCalls == {c \in 1 .. Len(calls) : calls[c].result # "not started"}

\* C26: with a single producer and n shards the k-th AddTask call on the
\* started pool (k = 0, 1, 2, ...) asks shard k mod n for a worker; the first
\* call asks shard 0.
C26_RoundRobinOverShards ==
    [][\A p \in Producers :
          AddTask_idx(p) =>
              LET k == Cardinality(StartedCalls) - 1
              IN  /\ prod'[p].pc = "load1"
                  /\ prod'[p].shard - 1 = k % wp.numShards
                  /\ Cardinality(StartedCalls) = 1 => prod'[p].shard - 1 = 0]_vars

\* the third call on a pool of two shards asks shard 0 again, after shard 0
\* and shard 1
C26_ThirdCallAsksFirstShard ==
    /\ wp.numShards = 2
    /\ Cardinality(StartedCalls) = 3
    /\ \E p \in Producers : prod[p].pc = "load1" /\ prod[p].call = 3 /\ prod[p].shard = 1
    /\ \A c \in 1 .. 2 : calls[c].result = "ok"

\* C27: the shard index AddTask computes is always in [0, numShards): under
\* lost updates of the counter by concurrent producers, and when the counter
\* overflows its width and wraps.
C27_ShardIndexInRange ==
    [][\A p \in Producers :
          AddTask_idx(p) =>
              /\ ShardIndex(wp.acquireCounter, wp.numShards) \in 0 .. (wp.numShards - 1)
              /\ prod'[p].pc = "load1"
              /\ prod'[p].shard \in 1 .. Len(shards)
              /\ calls'[prod[p].call].result # "panic"]_vars

\* C27, as long as the counter has not wrapped: this much the code keeps.
C27_InRangeBeforeOverflow ==
    [][\A p \in Producers :
          AddTask_idx(p) /\ wp.acquireCounter >= 0 =>
              /\ ShardIndex(wp.acquireCounter, wp.numShards) \in 0 .. (wp.numShards - 1)
              /\ prod'[p].pc = "load1"
              /\ prod'[p].shard \in 1 .. Len(shards)]_vars

\* C28: every worker getWorker obtains from workerCache.Get() has an open
\* task channel, one that accepts a send: also a worker that was put back
\* after Stop had closed its channel.
C28_RecycledWorkerHasOpenChannel ==
    [][\A p \in Producers :
          getWorker_spawn(p) => workers'[prod'[p].worker].taskChan = "open"]_vars

\* C28 for the workers that left through the sentinel or through
\* setWorkerIdle on a stopped shard, and for new ones: this much the code
\* keeps.
C28_UnclosedWorkerHasOpenChannel ==
    [][\A p \in Producers :
          getWorker_spawn(p) /\ ~workers[prod'[p].worker].isDeleted =>
              workers'[prod'[p].worker].taskChan = "open"]_vars

ParkedIn(w, sh) ==
    w = sh.idleWorker1 \/ w = sh.idleWorker2 \/ w \in Range(sh.idleWorkerList)

\* C30: from its spawn to its exit a worker's shard does not change: it is
\* the shard whose getWorker spawned it, and the worker releases itself
\* into that shard's slots or list or into the pool-wide slot, never into
\* another shard, also after a submission aimed at another shard took it
\* from the pool-wide slot.
C30_WorkerKeepsItsShard ==
    /\ [][\A w \in Workers :
            run[w].pc # "none" /\ run'[w].pc # "none" =>
                workers'[w].shard = workers[w].shard]_vars
    /\ [][\A p \in Producers :
            getWorker_spawn(p) =>
                /\ workers'[prod'[p].worker].shard = prod[p].shard
                /\ run[prod'[p].worker].pc = "none"]_vars
    /\ [][\A w \in Workers :
            InSetWorkerIdle(w) /\ run'[w].pc = "recv" =>
                /\ \/ wp'.idleWorker1 = w /\ wp.idleWorker1 = NoWorker
                   \/ ParkedIn(w, shards'[workers[w].shard])
                /\ \A s \in 1 .. Len(shards) :
                      s # workers[w].shard => shards'[s] = shards[s]]_vars

\* a submission aimed at shard 2 has taken worker 3, of shard 1, from the
\* pool-wide slot, the next one has taken worker 1 from slot A of shard 1,
\* and worker 3 has released itself into slot A of shard 1
C30_ReleasedIntoOwnShard ==
    /\ wp.numShards = 2
    /\ Len(calls) = 5
    /\ calls[4].result = "ok" /\ calls[4].handled
    /\ Executing(1, 5)
    /\ workers[3].shard = 1
    /\ run[3].pc = "recv"
    /\ shards[1].idleWorker1 = 3

\* worker w is in no idle tier: not in the pool-wide slot and not in a slot
\* or the idle list of any shard
InNoTier(w) ==
    /\ wp.idleWorker1 # w
    /\ \A s \in 1 .. Len(shards) : ~ParkedIn(w, shards[s])

LockedShards == {s \in 1 .. Len(shards) : shards[s].mutex = 1}

\* the goroutines inside the critical section of some shard
ShardLockHolders == UNION {InCriticalSection(s) : s \in 1 .. Len(shards)}

\* the goroutines that take a lock while they hold one: Stop's loop takes
\* each shard.mutex inside wp.mutex
NestedLockers == {k \in Stoppers : stopc[k].pc \in {"shardLock", "shard"}}

\* C32: the spin locks cannot deadlock.  Every held lock has one holder, and
\* the holder is inside a critical section: it has not returned, has not
\* panicked, and is at no channel send or receive.  A lock is taken by a
\* goroutine that holds no lock, but for Stop, which takes each shard lock
\* while it holds the pool lock; nobody takes the pool lock inside a shard
\* lock.  Every lock is free again and again.
C32_SpinLocksCannotDeadlock ==
    /\ [](/\ Cardinality(ShardLockHolders) = Cardinality(LockedShards)
          /\ Cardinality(InPoolCriticalSection) = wp.mutex
          /\ \A k \in Stoppers : stopc[k].pc # "panic"
          /\ \A p \in Producers :
                prod[p].pc \in {"idle", "send"} =>
                    \A s \in 1 .. Len(shards) : <<"getWorker", p>> \notin InCriticalSection(s)
          /\ \A r \in Reapers :
                cleanup[r].pc \in {"sleep", "send", "done"} =>
                    \A s \in 1 .. Len(shards) : <<"cleanup", r>> \notin InCriticalSection(s)
          /\ \A w \in Workers :
                run[w].pc \in {"none", "recv", "handler", "exit"} =>
                    \A s \in 1 .. Len(shards) : <<"setWorkerIdle", w>> \notin InCriticalSection(s))
    /\ [][/\ wp.mutex = 0 /\ wp'.mutex = 1 =>
                \E k \in Stoppers :
                    /\ stopc[k].pc = "idle"
                    /\ stopc'[k].pc = "shardLock"
                    /\ ShardLockHolders' = ShardLockHolders
          /\ \A s \in 1 .. Len(shards) :
                shards[s].mutex = 0 /\ shards'[s].mutex = 1 =>
                    \/ \E p \in Producers : prod[p].pc = "lock" /\ prod'[p].pc = "locked"
                    \/ \E w \in Workers : run[w].pc = "lock" /\ run'[w].pc = "locked"
                    \/ \E r \in Reapers : cleanup[r].pc = "lock" /\ cleanup'[r].pc = "scan"
                    \/ \E k \in Stoppers :
                          /\ stopc[k].pc = "shardLock" /\ stopc'[k].pc = "shard"
                          /\ NestedLockers = {k}
                          /\ wp.mutex = 1]_vars
    /\ []<>(wp.mutex = 0)
    /\ \A s \in 1 .. MaxProcs : []<>(~ShardLockHeld(s))

\* Stop holds the pool lock and, nested in it, the lock of the second shard,
\* while a submitter is inside the critical section of the first shard
C32_NestedAndPlainHolders ==
    /\ \E k \in Stoppers : stopc[k].pc = "shard" /\ stopc[k].i = 2
    /\ \E p \in Producers : prod[p].pc = "locked" /\ prod[p].shard = 1
    /\ wp.mutex = 1
    /\ LockedShards = {1, 2}

\* C33: the reaper never sends the shutdown sentinel on a task channel that
\* Stop has closed: whenever a reaper reaches its `taskChan <- nil`, the
\* channel of the worker it took from the idle list is open, and no reaper
\* panics.
C33_ReaperSendsOnOpenChannel ==
    /\ [](~Crashed)
    /\ [][\A r \in Reapers :
            cleanup_send(r) => workers[Head(cleanup[r].toBeCleaned)].taskChan = "open"]_vars

\* C33 for a worker that still belongs to the shard whose list the reaper
\* took it from: the stopped flag the reaper tests is the flag Stop set in
\* the critical section that closed the channel, and the send finds the
\* channel open.
C33_UnmovedWorkerHasOpenChannel ==
    [][\A r \in Reapers :
          /\ cleanup_send(r)
          /\ workers[Head(cleanup[r].toBeCleaned)].shard = cleanup[r].i
          => workers[Head(cleanup[r].toBeCleaned)].taskChan = "open"]_vars

====
